---- MODULE Spec2Model ----
(***************************************************************************)
(* TaskFlow: the state-and-persistence layer (StorageManager, storage.js)  *)
(* over a string-only key-value store (localStorage).                      *)
(*                                                                         *)
(* Representation of JavaScript values                                     *)
(*   - an object is a function from its own keys (strings) to values;      *)
(*   - an array is a sequence;                                             *)
(*   - null in a timestamp field is <<>> and the ISO-8601 string of the    *)
(*     instant t (milliseconds) is <<t>>;                                  *)
(*   - undefined in a text field is the value Undefined;                   *)
(*   - the text held by a slot is represented by what it parses to:        *)
(*     kind "absent" (getItem returns null), "empty" (the empty text, on   *)
(*     which JSON.parse is never called), "garbage" (JSON.parse            *)
(*     throws), "array" (a JSON array, in items), "other" (well-formed     *)
(*     JSON that is no array: here a JSON object), "null" (the JSON text   *)
(*     null, a falsy value); for the settings slot kind "object" (a JSON   *)
(*     object, in obj), "other" (well-formed JSON that is no object: here  *)
(*     a JSON array) and "null";                                           *)
(*   - the outcome of a call is a record: ret, the value returned (or the  *)
(*     one the catch block returns), and raised, whether an exception      *)
(*     leaves the call; a call that writes a slot also has slot, the text  *)
(*     the slot holds afterwards, and write, what became of its setItem    *)
(*     ("none" when it made none, "ok", "failed").                         *)
(***************************************************************************)
EXTENDS Integers, Sequences, FiniteSets, TLC

\* Bounds of the model: the Repository calls of one session (of a first run,
\* and of a run over what the store already holds), and the clock.
MaxCalls == 4
MaxStoreCalls == 2
MaxTime == 1
MaxViewLen == 3
MaxAppCalls == 4
MaxReads == 1
MaxLoads == 2

VARIABLES
    available,       \* localStorage can be used at all (no SecurityError)
    defaultCategories, \* the array object bound to DEFAULT_CATEGORIES
    defaultSettings, \* the object bound to DEFAULT_SETTINGS
    tasksSlot,       \* text under STORAGE_KEYS.TASKS
    categoriesSlot,  \* text under STORAGE_KEYS.CATEGORIES
    settingsSlot,    \* text under STORAGE_KEYS.SETTINGS
    now,             \* the clock read by Date.now() / new Date()
    calls,           \* the number of Repository calls made so far
    budget,          \* the number of Repository calls the session makes at most
    last,            \* history: the last Repository call, its arguments and result
    refTasks,        \* history: the in-memory reference list of the oracle test
    toggleRun,       \* history: the current run of successive toggles of one task
    probeFailed,     \* history: the probe of isLocalStorageAvailable() failed at load
    currentTasks,    \* AppController.state.currentTasks
    currentCategories, \* AppController.state.currentCategories
    currentSettings, \* AppController.state.settings
    searchInput,     \* the value of the input element 'searchInput'
    categoryFilter,  \* the value of the select element 'categoryFilter'
    statusFilter,    \* the value of the select element 'statusFilter'
    sortSelect,      \* the value of the select element 'sortSelect'
    rendered,        \* the list last handed to UIManager.renderTasks
    stats,           \* the counts last shown by UIManager.updateStats
    modal,           \* the modal dialog that is open, and the task id it holds
    reading,         \* the files whose FileReader has not yet completed
    imported         \* history: an import has been applied in this session

\* The Coordinator's session state and the page's inputs and output.
sessionVars == <<currentTasks, currentCategories, currentSettings, searchInput,
                 categoryFilter, statusFilter, sortSelect, rendered, stats, modal,
                 reading, imported>>

vars == <<available, defaultCategories, defaultSettings, tasksSlot, categoriesSlot,
          settingsSlot, now, calls, budget, last, refTasks, toggleRun, probeFailed,
          sessionVars>>

-----------------------------------------------------------------------------
(* JavaScript values *)

Null == <<>>
Undefined == "undefined"
toISOString(t) == <<t>>
EmptyObject == [k \in {} |-> ""]

\* The keys whose values are text.
TextKeys == {"id", "title", "description", "category", "priority", "dueDate",
             "name", "color", "theme", "sortBy", "filterCategory", "filterStatus"}

\* o has an own property k whose value is not undefined.
Has(o, k) == k \in DOMAIN o /\ (k \in TextKeys => o[k] # Undefined)

\* a and b read the same under property access (a missing key reads undefined).
SameContent(a, b) ==
    \A k \in DOMAIN a \cup DOMAIN b :
        /\ Has(a, k) <=> Has(b, k)
        /\ Has(a, k) => a[k] = b[k]

SameList(s, t) ==
    /\ Len(s) = Len(t)
    /\ \A i \in 1..Len(s) : SameContent(s[i], t[i])

\* !!o.completed
IsCompleted(o) == "completed" \in DOMAIN o /\ o.completed

\* { ...a, ...b }
Spread(a, b) ==
    [k \in DOMAIN a \cup DOMAIN b |-> IF k \in DOMAIN b THEN b[k] ELSE a[k]]

\* Mutant: the empty text is dropped as well (a falsy test for undefined).
StringifyObjectDropsFalsy(o) ==
    [k \in {j \in DOMAIN o : Has(o, j) /\ (j \in TextKeys => o[j] # "")} |-> o[k]]

\* JSON.stringify of an object drops the properties whose value is undefined.
StringifyObject(o) == [k \in {j \in DOMAIN o : Has(o, j)} |-> o[k]]

\* JSON.stringify of an array of objects
StringifyArray(items) ==
    [kind |-> "array", items |-> [i \in 1..Len(items) |-> StringifyObject(items[i])]]

\* JSON.stringify of a settings object
StringifyRecord(o) == [kind |-> "object", obj |-> StringifyObject(o)]

\* An array value.
Arr(items) == [kind |-> "array", items |-> items]

AbsentList == [kind |-> "absent", items |-> <<>>]
AbsentRecord == [kind |-> "absent", obj |-> EmptyObject]
EmptyList == [kind |-> "empty", items |-> <<>>]
EmptyRecord == [kind |-> "empty", obj |-> EmptyObject]

\* !localStorage.getItem(key): no item, or the empty text
NoText(slot) == slot.kind \in {"absent", "empty"}

\* Text JSON.parse throws on, well-formed text of the wrong shape, and the
\* text null.
GarbageList == [kind |-> "garbage", items |-> <<>>]
GarbageRecord == [kind |-> "garbage", obj |-> EmptyObject]
OtherList == [kind |-> "other", items |-> <<>>]
OtherRecord == [kind |-> "other", obj |-> EmptyObject]
NullList == [kind |-> "null", items |-> <<>>]
NullRecord == [kind |-> "null", obj |-> EmptyObject]

\* !v
Falsy(v) == v.kind \in {"absent", "null"}

\* A statement of a try block throws: nothing is returned, the exception
\* leaves the block.
Thrown == [ret |-> FALSE, raised |-> TRUE]

\* A return statement.
Returned(v) == [ret |-> v, raised |-> FALSE]

\* Mutant: the catch block logs the error and throws it again.
catchRethrows(r, h) == IF r.raised THEN [r EXCEPT !.ret = h] ELSE r

\* try { r } catch (error) { console.error(...); return h }
catch(r, h) == IF r.raised THEN [r EXCEPT !.ret = h, !.raised = FALSE] ELSE r

-----------------------------------------------------------------------------
(* Defaults *)

DEFAULT_CATEGORIES ==
    << [id |-> "cat_1", name |-> "Work", color |-> "#3b82f6"],
       [id |-> "cat_2", name |-> "Personal", color |-> "#8b5cf6"],
       [id |-> "cat_3", name |-> "Shopping", color |-> "#ec4899"],
       [id |-> "cat_4", name |-> "Health", color |-> "#10b981"] >>

DEFAULT_SETTINGS ==
    [theme |-> "light", sortBy |-> "date", filterCategory |-> "all",
     filterStatus |-> "all"]

-----------------------------------------------------------------------------
(* Reads *)

\* localStorage.setItem succeeds: the store is usable and the quota allows it.
setItemOk(wok) == available /\ wok

\* getTasks(): [] when the item is missing, and from the catch block when
\* getItem or JSON.parse throws; otherwise whatever the text parses to.
getTasksCall ==
    catch(IF ~available \/ tasksSlot.kind = "garbage" THEN Thrown
          ELSE IF NoText(tasksSlot) THEN Returned(Arr(<<>>))
          ELSE Returned([kind |-> tasksSlot.kind, items |-> tasksSlot.items]),
          Arr(<<>>))

getTasks == getTasksCall.ret

\* getCategories(): the array DEFAULT_CATEGORIES itself (shared) when the
\* item is missing or getItem / JSON.parse throws.
SharedCategories == [kind |-> "array", items |-> defaultCategories, shared |-> TRUE]

getCategoriesCall ==
    catch(IF ~available \/ categoriesSlot.kind = "garbage" THEN Thrown
          ELSE IF NoText(categoriesSlot) THEN Returned(SharedCategories)
          ELSE Returned([kind |-> categoriesSlot.kind,
                         items |-> categoriesSlot.items, shared |-> FALSE]),
          SharedCategories)

getCategories == getCategoriesCall.ret

\* getSettings(): the object DEFAULT_SETTINGS itself (shared) likewise.
SharedSettings == [kind |-> "object", obj |-> defaultSettings, shared |-> TRUE]

getSettingsCall ==
    catch(IF ~available \/ settingsSlot.kind = "garbage" THEN Thrown
          ELSE IF NoText(settingsSlot) THEN Returned(SharedSettings)
          ELSE Returned([kind |-> settingsSlot.kind,
                         obj |-> settingsSlot.obj, shared |-> FALSE]),
          SharedSettings)

getSettings == getSettingsCall.ret

\* The lists and the record a caller of the three reads sees.
listTasks == getTasks.items
listCategories == getCategories.items
settingsRecord == getSettings.obj

\* t.id === taskId
IdIs(t, taskId) == Has(t, "id") /\ t.id = taskId

\* tasks.findIndex(t => t.id === taskId): the first match, 0 for -1
findIndex(tasks, taskId) ==
    IF \E i \in 1..Len(tasks) : IdIs(tasks[i], taskId)
    THEN CHOOSE i \in 1..Len(tasks) :
            /\ IdIs(tasks[i], taskId)
            /\ \A j \in 1..(i - 1) : ~IdIs(tasks[j], taskId)
    ELSE 0

\* getTaskById(taskId): the task, or null (here the empty object); find
\* throws on what is no array.
getTaskByIdCall(taskId) ==
    LET tasks == getTasks
        i == findIndex(tasks.items, taskId)
    IN  catch(IF tasks.kind # "array" THEN Thrown
              ELSE Returned(IF i = 0 THEN EmptyObject ELSE tasks.items[i]),
              EmptyObject)

getTaskById(taskId) == getTaskByIdCall(taskId).ret

\* getCategoryById(categoryId): the category, or null (the empty object)
getCategoryByIdCall(categoryId) ==
    LET categories == getCategories
        i == findIndex(categories.items, categoryId)
    IN  catch(IF categories.kind # "array" THEN Thrown
              ELSE Returned(IF i = 0 THEN EmptyObject ELSE categories.items[i]),
              EmptyObject)

getCategoryById(categoryId) == getCategoryByIdCall(categoryId).ret

-----------------------------------------------------------------------------
(* Task operations: each yields its return value and the text the tasks    *)
(* slot holds afterwards.  wok: the quota allows this setItem.             *)

\* JSON.stringify of what saveTasks is handed
StringifyValue(v) ==
    IF v.kind = "array" THEN StringifyArray(v.items)
    ELSE IF v.kind = "null" THEN NullList
    ELSE OtherList

\* setItem has stored text in the slot, and true is returned.
Wrote(text) == [ret |-> TRUE, raised |-> FALSE, slot |-> text, write |-> "ok"]

\* setItem throws (the store cannot be used, or its quota is exceeded).
SetItemThrew(slot) ==
    [ret |-> FALSE, raised |-> TRUE, slot |-> slot, write |-> "failed"]

\* A TypeError is thrown before anything is written.
TypeError(slot) == [ret |-> FALSE, raised |-> TRUE, slot |-> slot, write |-> "none"]

\* Mutant: the catch block of saveTasks reports success.
saveTasksSwallows(v, wok) ==
    catch(IF setItemOk(wok) THEN Wrote(StringifyValue(v)) ELSE SetItemThrew(tasksSlot),
          TRUE)

saveTasks(v, wok) ==
    catch(IF setItemOk(wok) THEN Wrote(StringifyValue(v)) ELSE SetItemThrew(tasksSlot),
          FALSE)

\* The not-found returns: false, nothing written.
Failed == [ret |-> FALSE, raised |-> FALSE, slot |-> tasksSlot, write |-> "none"]

\* Date.now() in decimal: the clock counts the milliseconds of the session.
DateNow == "170000000000" \o ToString(now)

\* The id addTask generates.
NewTaskId(rnd) == "task_" \o DateNow \o "_" \o rnd

\* Mutant: the caller's own values for the four fields win.
StampTaskCallerWins(task, rnd) ==
    Spread([id |-> NewTaskId(rnd), createdAt |-> toISOString(now),
            completed |-> FALSE, completedAt |-> Null], task)

\* The four assignments of addTask to the caller's object.
StampTask(task, rnd) ==
    Spread(task, [id |-> NewTaskId(rnd), createdAt |-> toISOString(now),
                  completed |-> FALSE, completedAt |-> Null])

addTask(task, rnd, wok) ==
    LET tasks == getTasks
    IN  catch(IF tasks.kind # "array" THEN TypeError(tasksSlot)   \* tasks.push
              ELSE saveTasks(Arr(Append(tasks.items, StampTask(task, rnd))), wok),
              FALSE)

\* Mutant: the spread is written the other way round, the stored fields win.
MergeUpdatesStoredWins(task, updates) == Spread(updates, task)

\* tasks[taskIndex] = { ...tasks[taskIndex], ...updates }
MergeUpdates(task, updates) == Spread(task, updates)

updateTask(taskId, updates, wok) ==
    LET tasks == getTasks
        taskIndex == findIndex(tasks.items, taskId)
    IN  catch(IF tasks.kind # "array" THEN TypeError(tasksSlot)   \* tasks.findIndex
              ELSE IF taskIndex = 0 THEN Failed
              ELSE saveTasks(Arr([tasks.items EXCEPT
                                    ![taskIndex] = MergeUpdates(@, updates)]), wok),
              FALSE)

\* Mutant: the filter keeps the matching tasks instead of the others.
FilterOutIdInverted(tasks, taskId) == SelectSeq(tasks, LAMBDA t : IdIs(t, taskId))

\* tasks.filter(t => t.id !== taskId)
FilterOutId(tasks, taskId) == SelectSeq(tasks, LAMBDA t : ~IdIs(t, taskId))

\* Mutant: the not-found return is missing.
deleteTaskUnchecked(taskId, wok) ==
    LET tasks == getTasks
    IN  catch(IF tasks.kind # "array" THEN TypeError(tasksSlot)
              ELSE saveTasks(Arr(FilterOutId(tasks.items, taskId)), wok),
              FALSE)

deleteTask(taskId, wok) ==
    LET tasks == getTasks
        filteredTasks == FilterOutId(tasks.items, taskId)
    IN  catch(IF tasks.kind # "array" THEN TypeError(tasksSlot)   \* tasks.filter
              ELSE IF Len(filteredTasks) = Len(tasks.items) THEN Failed
              ELSE saveTasks(Arr(filteredTasks), wok),
              FALSE)

\* Mutant: completedAt is set on every toggle, never cleared.
ToggleFieldsAlwaysStamps(task) ==
    Spread(task, [completed |-> ~IsCompleted(task), completedAt |-> toISOString(now)])

\* task.completed = !task.completed;
\* task.completedAt = task.completed ? new Date().toISOString() : null
ToggleFields(task) ==
    Spread(task, [completed |-> ~IsCompleted(task),
                  completedAt |-> IF ~IsCompleted(task)
                                  THEN toISOString(now) ELSE Null])

toggleTaskComplete(taskId, wok) ==
    LET tasks == getTasks
        i == findIndex(tasks.items, taskId)
    IN  catch(IF tasks.kind # "array" THEN TypeError(tasksSlot)   \* tasks.find
              ELSE IF i = 0 THEN Failed
              ELSE saveTasks(Arr([tasks.items EXCEPT ![i] = ToggleFields(@)]), wok),
              FALSE)

\* Mutant: the filter keeps the completed tasks instead of the others.
FilterActiveInverted(tasks) == SelectSeq(tasks, LAMBDA t : IsCompleted(t))

\* tasks.filter(t => !t.completed)
FilterActive(tasks) == SelectSeq(tasks, LAMBDA t : ~IsCompleted(t))

clearCompletedTasks(wok) ==
    LET tasks == getTasks
    IN  catch(IF tasks.kind # "array" THEN TypeError(tasksSlot)   \* tasks.filter
              ELSE saveTasks(Arr(FilterActive(tasks.items)), wok),
              FALSE)

-----------------------------------------------------------------------------
(* Category and settings operations: each also yields defaults, the value  *)
(* the shared default object holds afterwards.                             *)

saveCategories(v, wok) ==
    catch(IF setItemOk(wok) THEN Wrote(StringifyValue(v))
          ELSE SetItemThrew(categoriesSlot),
          FALSE)

\* JSON.stringify of what saveSettings is handed
StringifySettings(v) ==
    IF v.kind = "object" THEN StringifyRecord(v.obj)
    ELSE IF v.kind = "null" THEN NullRecord
    ELSE OtherRecord

saveSettings(v, wok) ==
    catch(IF setItemOk(wok) THEN Wrote(StringifySettings(v))
          ELSE SetItemThrew(settingsSlot),
          FALSE)

\* The ASCII letters, and the position of the one-character text c in a
\* text (0 when it does not occur).
UpperCase == "ABCDEFGHIJKLMNOPQRSTUVWXYZ"
LowerCase == "abcdefghijklmnopqrstuvwxyz"
IndexIn(text, c) ==
    IF \E i \in 1..Len(text) : SubSeq(text, i, i) = c
    THEN CHOOSE i \in 1..Len(text) : SubSeq(text, i, i) = c
    ELSE 0

\* The lower-case letter of each upper-case letter.
LowerOf ==
    [c \in {SubSeq(UpperCase, i, i) : i \in 1..Len(UpperCase)} |->
        SubSeq(LowerCase, IndexIn(UpperCase, c), IndexIn(UpperCase, c))]

\* Each upper-case letter replaced by its lower-case letter.
RECURSIVE LowerChars(_)
LowerChars(s) ==
    IF s = "" THEN ""
    ELSE LET c == Head(s)
         IN  (IF c \in DOMAIN LowerOf THEN LowerOf[c] ELSE c) \o LowerChars(Tail(s))

\* Mutant: the names are compared as they are written.
toLowerCaseIdentity(s) == s

\* String.prototype.toLowerCase (on ASCII text)
toLowerCase(s) == LowerChars(s)

\* The id addCategory generates.
NewCategoryId == "cat_" \o DateNow

\* categories.some(c => c.name.toLowerCase() === category.name.toLowerCase())
\* stops at the first category whose name is missing (a TypeError, as when
\* the new category has no name) or equal; 0 when it runs to the end.
someSameName(categories, category) ==
    LET stops == {i \in 1..Len(categories) :
                     \/ ~Has(categories[i], "name")
                     \/ ~Has(category, "name")
                     \/ toLowerCase(categories[i].name) = toLowerCase(category.name)}
    IN  IF stops = {} THEN 0
        ELSE CHOOSE i \in stops : \A j \in stops : i <= j

addCategory(category, wok) ==
    LET categories == getCategories
        stop == someSameName(categories.items, category)
        pushed == Append(categories.items, Spread(category, [id |-> NewCategoryId]))
        kept == [defaults |-> defaultCategories]
    IN  catch(IF categories.kind # "array"                   \* categories.some
              THEN TypeError(categoriesSlot) @@ kept
              ELSE IF stop = 0
              THEN saveCategories(Arr(pushed), wok) @@
                   [defaults |-> IF categories.shared THEN pushed
                                 ELSE defaultCategories]
              ELSE IF Has(categories.items[stop], "name") /\ Has(category, "name")
              THEN [ret |-> FALSE, raised |-> FALSE, slot |-> categoriesSlot,
                    write |-> "none"] @@ kept
              ELSE TypeError(categoriesSlot) @@ kept,
              FALSE)

\* settings[key] = value: a property of the object; on the JSON array that
\* kind "other" stands for, a property JSON.stringify leaves out (on null the
\* assignment throws, see updateSetting).
Assign(settings, key, value) ==
    IF settings.kind = "object"
    THEN [settings EXCEPT !.obj = Spread(@, key :> value)]
    ELSE settings

updateSetting(key, value, wok) ==
    LET settings == getSettings
        assigned == Assign(settings, key, value)
    IN  catch(IF settings.kind = "null"                      \* null[key] = value
              THEN TypeError(settingsSlot) @@ [defaults |-> defaultSettings]
              ELSE saveSettings(assigned, wok) @@
                   [defaults |-> IF settings.shared THEN assigned.obj
                                 ELSE defaultSettings],
              FALSE)

-----------------------------------------------------------------------------
(* Export, import, reset, initialisation                                   *)

\* exportData(): the document that JSON.stringify writes, or null
exportDataCall ==
    catch(Returned([kind |-> "object",
                    tasks |-> StringifyValue(getTasks),
                    categories |-> StringifyValue(getCategories),
                    settings |-> StringifySettings(getSettings)]),
          Null)

exportData == exportDataCall.ret

\* A document handed to importData: kind "garbage" when JSON.parse throws on
\* it; a field of kind "absent" is missing in the parsed document and one of
\* kind "null" is null, for both of which the try block throws 'Invalid data
\* format'.  importData returns true whatever the three saves return.
importData(doc, w1, w2, w3) ==
    catch(IF doc.kind = "garbage" \/ Falsy(doc.tasks) \/ Falsy(doc.categories)
          THEN [ret |-> FALSE, raised |-> TRUE, tasks |-> tasksSlot,
                categories |-> categoriesSlot, settings |-> settingsSlot]
          ELSE [ret |-> TRUE, raised |-> FALSE,
                tasks |-> saveTasks(doc.tasks, w1).slot,
                categories |-> saveCategories(doc.categories, w2).slot,
                settings |-> IF ~Falsy(doc.settings)
                             THEN saveSettings(doc.settings, w3).slot
                             ELSE settingsSlot],
          FALSE)

\* Mutant: the three defaults are written whatever the slots hold.
initializeOverwrites(t, c, s, w1, w2, w3) ==
    IF ~available THEN [tasks |-> t, categories |-> c, settings |-> s]
    ELSE [tasks |-> IF w1 THEN StringifyArray(<<>>) ELSE t,
          categories |-> IF w2 THEN StringifyArray(defaultCategories) ELSE c,
          settings |-> IF w3 THEN StringifyRecord(defaultSettings) ELSE s]

\* initialize() on the slots given: a slot for which getItem returns a falsy
\* value (no item, the empty text) is seeded with its default when the write
\* succeeds; nothing happens when the probe fails.
initialize(t, c, s, w1, w2, w3) ==
    IF ~available THEN [tasks |-> t, categories |-> c, settings |-> s]
    ELSE [tasks |-> IF NoText(t) /\ w1 THEN StringifyArray(<<>>) ELSE t,
          categories |-> IF NoText(c) /\ w2
                         THEN StringifyArray(defaultCategories) ELSE c,
          settings |-> IF NoText(s) /\ w3
                       THEN StringifyRecord(defaultSettings) ELSE s]

\* clearAllData(): removeItem throws when the store cannot be used.
clearAllData(w1, w2, w3) ==
    catch(IF ~available
          THEN [ret |-> FALSE, raised |-> TRUE, tasks |-> tasksSlot,
                categories |-> categoriesSlot, settings |-> settingsSlot]
          ELSE [ret |-> TRUE, raised |-> FALSE] @@
               initialize(AbsentList, AbsentList, AbsentRecord, w1, w2, w3),
          FALSE)

-----------------------------------------------------------------------------
(* The derived view: AppController.applyFiltersAndSort and sortTasks, on   *)
(* tasks that have the data model's title (a text) and completed (a        *)
(* boolean).                                                               *)

\* A JavaScript number, or NaN.  Time values are counted in days (one is
\* 86 400 000 ms).
Num(n) == [nan |-> FALSE, n |-> n]
NaN == [nan |-> TRUE, n |-> 0]
Minus(a, b) == IF a.nan \/ b.nan THEN NaN ELSE Num(a.n - b.n)

\* o.k as a text: undefined for a missing property
Text(o, k) == IF Has(o, k) THEN o[k] ELSE Undefined

\* String.prototype.trim (the white space is the blank)
RECURSIVE trimStart(_)
trimStart(s) == IF s # "" /\ Head(s) = " " THEN trimStart(Tail(s)) ELSE s
RECURSIVE trimEnd(_)
trimEnd(s) ==
    IF s # "" /\ SubSeq(s, Len(s), Len(s)) = " "
    THEN trimEnd(SubSeq(s, 1, Len(s) - 1)) ELSE s
trim(s) == trimEnd(trimStart(s))

\* String.prototype.includes
includes(s, t) ==
    \E i \in 0..(Len(s) - Len(t)) : SubSeq(s, i + 1, i + Len(t)) = t

\* The decimal number a text of digits writes.
RECURSIVE ParseDigits(_)
ParseDigits(s) ==
    IF s = "" THEN 0
    ELSE 10 * ParseDigits(SubSeq(s, 1, Len(s) - 1))
         + (IndexIn("0123456789", SubSeq(s, Len(s), Len(s))) - 1)

\* The text has the date-only form YYYY-MM-DD of an input of type date.
IsDateOnly(s) ==
    /\ Len(s) = 10
    /\ \A i \in 1..10 :
          IF i \in {5, 8} THEN SubSeq(s, i, i) = "-"
          ELSE IndexIn("0123456789", SubSeq(s, i, i)) # 0
    /\ ParseDigits(SubSeq(s, 6, 7)) \in 1..12
    /\ ParseDigits(SubSeq(s, 9, 10)) \in 1..31

\* The days from 1970-01-01 to the day d of month m of year y.
DaysFromCivil(y, m, d) ==
    LET yy == IF m <= 2 THEN y - 1 ELSE y
        era == yy \div 400
        yoe == yy - era * 400
        doy == (153 * (IF m > 2 THEN m - 3 ELSE m + 9) + 2) \div 5 + d - 1
        doe == yoe * 365 + yoe \div 4 - yoe \div 100 + doy
    IN  era * 146097 + doe - 719468

\* new Date(text) as a number: the time value of a date-only text, NaN for
\* an Invalid Date.
DateValue(s) ==
    IF IsDateOnly(s)
    THEN Num(DaysFromCivil(ParseDigits(SubSeq(s, 1, 4)), ParseDigits(SubSeq(s, 6, 7)),
                           ParseDigits(SubSeq(s, 9, 10))))
    ELSE NaN

\* priorityOrder[p]: undefined (in a subtraction, NaN) for another text
priorityOrder(p) ==
    CASE p = "high" -> Num(0)
      [] p = "medium" -> Num(1)
      [] p = "low" -> Num(2)
      [] OTHER -> NaN

\* The first position at which the texts s and t differ, 0 when t continues s
\* or s continues t.
FirstDifference(s, t) ==
    LET n == IF Len(s) < Len(t) THEN Len(s) ELSE Len(t)
        ds == {i \in 1..n : SubSeq(s, i, i) # SubSeq(t, i, i)}
    IN  IF ds = {} THEN 0 ELSE CHOOSE i \in ds : \A j \in ds : i <= j

\* String.prototype.localeCompare on texts of ASCII letters, in the default
\* collation: by the letters whatever their case, a text before its
\* continuations; then, at the first letter that differs in case alone, the
\* lower-case one first.
localeCompare(s, t) ==
    LET ls == LowerChars(s)
        lt == LowerChars(t)
        i == FirstDifference(ls, lt)
        j == FirstDifference(s, t)
    IN  IF i # 0
        THEN Num(IF IndexIn(LowerCase, SubSeq(ls, i, i)) <
                    IndexIn(LowerCase, SubSeq(lt, i, i)) THEN -1 ELSE 1)
        ELSE IF Len(s) # Len(t) THEN Num(IF Len(s) < Len(t) THEN -1 ELSE 1)
        ELSE IF j = 0 THEN Num(0)
        ELSE Num(IF IndexIn(LowerCase, SubSeq(s, j, j)) # 0 THEN -1 ELSE 1)

\* Mutant: the completed tasks are put first.
compareTasksCompletedFirst(a, b, sortBy) ==
    IF a.completed # b.completed THEN Num(IF a.completed THEN -1 ELSE 1)
    ELSE CASE sortBy = "date" ->
                Minus(DateValue(Text(a, "dueDate")), DateValue(Text(b, "dueDate")))
           [] sortBy = "priority" ->
                Minus(priorityOrder(Text(a, "priority")), priorityOrder(Text(b, "priority")))
           [] sortBy = "alphabetical" -> localeCompare(a.title, b.title)
           [] OTHER -> Num(0)

\* Mutant: the secondary key is compared the other way round.
compareTasksDescending(a, b, sortBy) ==
    IF a.completed # b.completed THEN Num(IF a.completed THEN 1 ELSE -1)
    ELSE CASE sortBy = "date" ->
                Minus(DateValue(Text(b, "dueDate")), DateValue(Text(a, "dueDate")))
           [] sortBy = "priority" ->
                Minus(priorityOrder(Text(b, "priority")), priorityOrder(Text(a, "priority")))
           [] sortBy = "alphabetical" -> localeCompare(b.title, a.title)
           [] OTHER -> Num(0)

\* The comparator handed to sort (app.js 423-443).
compareTasks(a, b, sortBy) ==
    IF a.completed # b.completed THEN Num(IF a.completed THEN 1 ELSE -1)
    ELSE CASE sortBy = "date" ->
                Minus(DateValue(Text(a, "dueDate")), DateValue(Text(b, "dueDate")))
           [] sortBy = "priority" ->
                Minus(priorityOrder(Text(a, "priority")), priorityOrder(Text(b, "priority")))
           [] sortBy = "alphabetical" -> localeCompare(a.title, b.title)
           [] OTHER -> Num(0)

\* Mutant: an element is put before the elements it compares equal to.
RECURSIVE InsertBeforeEqual(_, _, _)
InsertBeforeEqual(s, x, sortBy) ==
    IF s = <<>> THEN <<x>>
    ELSE LET v == compareTasks(s[Len(s)], x, sortBy)
         IN  IF v.nan \/ v.n >= 0
             THEN Append(InsertBeforeEqual(SubSeq(s, 1, Len(s) - 1), x, sortBy), s[Len(s)])
             ELSE Append(s, x)

\* x put into the sorted s: after every element that is not greater (a NaN
\* from the comparator counts as 0).
RECURSIVE Insert(_, _, _)
Insert(s, x, sortBy) ==
    IF s = <<>> THEN <<x>>
    ELSE LET v == compareTasks(s[Len(s)], x, sortBy)
         IN  IF ~v.nan /\ v.n > 0
             THEN Append(Insert(SubSeq(s, 1, Len(s) - 1), x, sortBy), s[Len(s)])
             ELSE Append(s, x)

\* Array.prototype.sort with the comparator: the stable sort (ECMAScript
\* 2019; the order is the only one a consistent comparator allows).
RECURSIVE sort(_, _)
sort(s, sortBy) ==
    IF s = <<>> THEN <<>>
    ELSE Insert(sort(SubSeq(s, 1, Len(s) - 1), sortBy), s[Len(s)], sortBy)

\* An array object: its elements, and whether it is the array object that
\* state.currentTasks refers to.
Session(items) == [items |-> items, session |-> TRUE]
Fresh(items) == [items |-> items, session |-> FALSE]

\* Mutant: the array itself is taken, not a copy.
SpreadCopyAliases(a) == a

\* [...a]: a new array of the same elements
SpreadCopy(a) == Fresh(a.items)

\* sortTasks(tasks, sortBy): the sorted copy it returns, and inPlace: the
\* array sorted in place is the session's.
sortTasks(tasks, sortBy) ==
    LET sorted == SpreadCopy(tasks)
    IN  [ret |-> [sorted EXCEPT !.items = sort(@, sortBy)],
         inPlace |-> sorted.session]

\* Mutant: the description is searched and the title is not.
MatchesSearchDescriptionOnly(task, searchTerm) ==
    /\ Has(task, "description") /\ task.description # ""
    /\ includes(toLowerCase(task.description), searchTerm)

\* task.title.toLowerCase().includes(searchTerm) ||
\* (task.description && task.description.toLowerCase().includes(searchTerm))
MatchesSearch(task, searchTerm) ==
    \/ includes(toLowerCase(task.title), searchTerm)
    \/ /\ Has(task, "description") /\ task.description # ""
       /\ includes(toLowerCase(task.description), searchTerm)

\* Mutant: the status filter 'pending' keeps the completed tasks.
KeepsStatusInverted(task, status) ==
    CASE status = "pending" -> task.completed
      [] status = "completed" -> task.completed
      [] OTHER -> TRUE

\* The status filter (app.js 398-403)
KeepsStatus(task, status) ==
    CASE status = "pending" -> ~task.completed
      [] status = "completed" -> task.completed
      [] OTHER -> TRUE

\* applyFiltersAndSort() up to the call of renderTasks, on the session list
\* tasks and the values search, category, status and sortBy of the page's
\* inputs: the list handed to renderTasks, and what the session's array
\* holds afterwards.
applyFiltersAndSort(tasks, search, category, status, sortBy) ==
    LET copied == SpreadCopy(Session(tasks))
        searchTerm == trim(toLowerCase(search))
        searched == IF searchTerm # ""
                    THEN Fresh(SelectSeq(copied.items,
                                         LAMBDA t : MatchesSearch(t, searchTerm)))
                    ELSE copied
        inCategory == IF category # "all"
                      THEN Fresh(SelectSeq(searched.items,
                                           LAMBDA t : Text(t, "category") = category))
                      ELSE searched
        inStatus == IF status \in {"pending", "completed"}
                    THEN Fresh(SelectSeq(inCategory.items,
                                         LAMBDA t : KeepsStatus(t, status)))
                    ELSE inCategory
        sorted == sortTasks(inStatus, sortBy)
    IN  [view |-> sorted.ret.items,
         tasks |-> IF sorted.inPlace THEN sorted.ret.items ELSE tasks]

-----------------------------------------------------------------------------
(* Inputs *)

\* Math.random().toString(36).substr(2, 9)
RandomSuffixes == {"4fzyo82mv", "k9x1c03ab"}

\* What callers hand to addTask: the form's five fields (handleTaskSubmit),
\* and the same with the four fields addTask assigns preset by the caller.
FormTask ==
    [title |-> "A", description |-> "", category |-> "cat_1", priority |-> "low",
     dueDate |-> "2026-02-01"]
PresetTask ==
    [title |-> "A", description |-> "", category |-> "cat_1", priority |-> "low",
     dueDate |-> "2026-02-01", id |-> "task_preset",
     createdAt |-> toISOString(MaxTime), completed |-> TRUE,
     completedAt |-> toISOString(0)]
TaskInputs == {FormTask, PresetTask}

\* What callers hand to updateTask: the form's five fields (handleTaskSubmit),
\* the completion flag alone, and the identity field with an undefined value.
FormUpdate ==
    [title |-> "C", description |-> "", category |-> "cat_1",
     priority |-> "medium", dueDate |-> "2026-02-01"]
CompletedUpdate == [completed |-> TRUE]
IdentityUpdate == [id |-> "task_renamed", description |-> Undefined]
UpdateInputs == {FormUpdate, CompletedUpdate, IdentityUpdate}

\* The ids callers pass: those of the stored tasks and one no task has.
MissingId == "task_missing"
StoredIds == {listTasks[i].id : i \in {j \in 1..Len(listTasks) : Has(listTasks[j], "id")}}
IdInputs == StoredIds \cup {MissingId}

\* Documents handed to importData.
ImportedTask ==
    [id |-> "task_imported", title |-> "I", description |-> "", category |-> "cat_9",
     priority |-> "low", dueDate |-> "2026-03-01", completed |-> FALSE,
     createdAt |-> toISOString(1), completedAt |-> toISOString(0)]
GarbageDoc ==
    [kind |-> "garbage", tasks |-> AbsentList, categories |-> AbsentList,
     settings |-> AbsentRecord]
NoCategoriesDoc ==
    [kind |-> "object", tasks |-> Arr(<<>>), categories |-> AbsentList,
     settings |-> AbsentRecord]
UncheckedDoc ==
    [kind |-> "object", tasks |-> Arr(<<ImportedTask>>),
     categories |-> Arr(DEFAULT_CATEGORIES),
     settings |-> [kind |-> "object", obj |-> [DEFAULT_SETTINGS EXCEPT !.theme = "dark"]]]
WrongShapeDoc ==
    [kind |-> "object", tasks |-> OtherList, categories |-> OtherList,
     settings |-> OtherRecord]
NoSettingsDoc ==
    [kind |-> "object", tasks |-> Arr(<<ImportedTask>>),
     categories |-> Arr(<<DEFAULT_CATEGORIES[1]>>), settings |-> AbsentRecord]
ImportInputs == {GarbageDoc, NoCategoriesDoc, UncheckedDoc}
StoreImportInputs == ImportInputs \cup {WrongShapeDoc, NoSettingsDoc}

\* Tasks of the data model for the derived view: titles that differ in case
\* alone, a description that is missing, empty, or the only text a search
\* term occurs in, two categories, the three priorities, due dates on both
\* sides of a new year, and ties under each sort key.
ViewTask(n, title, category, priority, dueDate, completed) ==
    [id |-> "task_v" \o ToString(n), title |-> title, category |-> category,
     priority |-> priority, dueDate |-> dueDate, completed |-> completed,
     createdAt |-> toISOString(0),
     completedAt |-> IF completed THEN toISOString(0) ELSE Null]
ViewTasks ==
    {ViewTask(1, "Ab", "cat_1", "high", "2026-02-01", FALSE),
     ViewTask(2, "b", "cat_2", "low", "2026-01-01", TRUE)
        @@ [description |-> "Ax"],
     ViewTask(3, "B", "cat_1", "medium", "2026-01-01", FALSE)
        @@ [description |-> ""],
     ViewTask(4, "ab", "cat_2", "high", "2026-01-01", FALSE),
     ViewTask(5, "B", "cat_2", "medium", "2025-12-31", FALSE)
        @@ [description |-> "c"],
     ViewTask(6, "Ab", "cat_1", "low", "2025-12-31", TRUE)}

\* The task lists a session can hold: up to MaxViewLen tasks, no task twice.
RECURSIVE ListsOver(_, _)
ListsOver(pool, n) ==
    IF n = 0 THEN {<<>>}
    ELSE LET shorter == ListsOver(pool, n - 1)
         IN  shorter \cup
             {Append(l, t) : l \in {k \in shorter : Len(k) = n - 1}, t \in pool}
ViewLists ==
    {l \in ListsOver(ViewTasks, MaxViewLen) :
        \A i \in 1..Len(l) : \A j \in 1..Len(l) : i # j => l[i] # l[j]}

\* What the page's inputs can hold: a search text typed with capitals and
\* blanks; the sentinel and a category id; the three statuses; the three
\* sort keys and the empty value of a select none of whose options is chosen.
SearchInputs == {"", "A ", "x", " "}
CategoryFilterInputs == {"all", "cat_1"}
StatusFilterInputs == {"all", "pending", "completed"}
SortSelectInputs == {"date", "priority", "alphabetical", ""}

\* What callers hand to addCategory: the form's name and colour
\* (handleCategorySubmit).
CategoryInputs ==
    {[name |-> n, color |-> "#ff0000"] : n \in {"WORK", "Urgent", "Errands"}}

\* What callers hand to updateSetting: the theme (toggleTheme), and a key
\* outside the four of DEFAULT_SETTINGS.
SettingInputs == {<<"theme", "dark">>, <<"language", "fr">>}

\* What an earlier session, or another program, left in the three slots:
\* nothing, text JSON.parse throws on, well-formed text of the wrong shape,
\* the text null.
StoreConditions ==
    {[tasks |-> AbsentList, categories |-> AbsentList, settings |-> AbsentRecord],
     [tasks |-> GarbageList, categories |-> GarbageList, settings |-> GarbageRecord],
     [tasks |-> OtherList, categories |-> OtherList, settings |-> OtherRecord],
     [tasks |-> NullList, categories |-> NullList, settings |-> NullRecord]}

-----------------------------------------------------------------------------
(* History variables.  They record what the properties below speak about   *)
(* and never influence the program's variables.                            *)

NoCall == [op |-> "none", id |-> "", arg |-> EmptyObject, ret |-> FALSE,
           write |-> "none", raised |-> FALSE]
NoRun == [n |-> 0, idx |-> 0, task |-> EmptyObject]

\* The in-memory reference list of the oracle test: append on create,
\* shallow merge in place on update, remove on delete.  A call outside the
\* oracle's operations, or one whose write fails, makes the oracle read the
\* list again.
RefCreate(ref, task, id, t) ==
    Append(ref, [k \in DOMAIN task \cup {"id", "createdAt", "completed", "completedAt"} |->
                    CASE k = "id" -> id
                      [] k = "createdAt" -> <<t>>
                      [] k = "completed" -> FALSE
                      [] k = "completedAt" -> <<>>
                      [] OTHER -> task[k]])
RefUpdate(ref, id, updates) ==
    LET hits == {i \in 1..Len(ref) : ref[i].id = id}
    IN  IF hits = {} THEN ref
        ELSE LET i == CHOOSE h \in hits : \A g \in hits : h <= g
             IN  [ref EXCEPT ![i] = [k \in DOMAIN @ \cup DOMAIN updates |->
                                       IF k \in DOMAIN updates THEN updates[k] ELSE @[k]]]
RefDelete(ref, id) == SelectSeq(ref, LAMBDA t : t.id # id)

\* The run of successive successful toggles of the task at index i, whose
\* record before the toggle is task.
NextRun(i, task, ok) ==
    IF ~ok THEN NoRun
    ELSE IF toggleRun.n = 1 /\ toggleRun.idx = i
         THEN [toggleRun EXCEPT !.n = 2]
         ELSE [n |-> 1, idx |-> i, task |-> task]

-----------------------------------------------------------------------------
(* The state machine *)

\* The quota's answer to a setItem that is never made is left at TRUE, so
\* that one call is one step.
Unasked(asked, wok) == asked \/ wok

\* What became of the setItem calls of an import: "none" when the document
\* was rejected before any, "several" when each one made succeeded, "failed"
\* when one of them threw.
ImportWrites(doc, r, w1, w2, w3) ==
    IF ~r.ret THEN "none"
    ELSE IF available /\ w1 /\ w2 /\ (Falsy(doc.settings) \/ w3) THEN "several"
    ELSE "failed"

\* One more Repository call is made.
Called == calls < budget /\ calls' = calls + 1 /\ budget' = budget

\* storage.js has been loaded, app.js has not yet run: the session state is
\* the literal of AppController.state, the page's inputs hold their first
\* options and nothing has been rendered.
NotRendered == [done |-> FALSE, items |-> <<>>]
NoStats == [done |-> FALSE, total |-> 0, completed |-> 0, pending |-> 0]
NoModal == [kind |-> "none", id |-> ""]
SessionInit ==
    /\ currentTasks = Arr(<<>>)
    /\ currentCategories = [kind |-> "array", items |-> <<>>, shared |-> FALSE]
    /\ currentSettings = [kind |-> "object", obj |-> EmptyObject, shared |-> FALSE]
    /\ searchInput = ""
    /\ categoryFilter = "all"
    /\ statusFilter = "all"
    /\ sortSelect = "date"
    /\ rendered = NotRendered
    /\ stats = NoStats
    /\ modal = NoModal
    /\ reading = {}
    /\ imported = FALSE

\* First run: no item is stored.  When the probe of isLocalStorageAvailable()
\* has just written and removed its item, the three defaults are written too.
Init ==
    /\ available \in BOOLEAN
    /\ defaultCategories = DEFAULT_CATEGORIES
    /\ defaultSettings = DEFAULT_SETTINGS
    /\ probeFailed = ~available
    /\ LET seeded == initialize(AbsentList, AbsentList, AbsentRecord, TRUE, TRUE, TRUE)
       IN  /\ tasksSlot = seeded.tasks
           /\ categoriesSlot = seeded.categories
           /\ settingsSlot = seeded.settings
    /\ now = 0
    /\ calls = 0
    /\ budget = MaxCalls
    /\ last = NoCall
    /\ refTasks = <<>>
    /\ toggleRun = NoRun
    /\ SessionInit

\* One action per StorageManager method.  r is the outcome of the call on the
\* current state, for the inputs and the setItem results chosen by \E.
AddTask ==
    /\ Called
    /\ UNCHANGED sessionVars
    /\ \E task \in TaskInputs, rnd \in RandomSuffixes, wok \in BOOLEAN :
         \E r \in {addTask(task, rnd, wok)} :
           /\ Unasked(available /\ r.write # "none", wok)
           /\ UNCHANGED <<available, defaultCategories, defaultSettings, probeFailed,
                        categoriesSlot, settingsSlot, now>>
           /\ tasksSlot' = r.slot
           /\ last' = [op |-> "addTask", id |-> NewTaskId(rnd), arg |-> task,
                       ret |-> r.ret,
                       write |-> r.write, raised |-> r.raised]
           /\ refTasks' = IF r.ret
                          THEN RefCreate(refTasks, task, NewTaskId(rnd), now)
                          ELSE listTasks'
           /\ toggleRun' = NoRun

UpdateTask ==
    /\ Called
    /\ UNCHANGED sessionVars
    /\ \E taskId \in IdInputs, updates \in UpdateInputs, wok \in BOOLEAN :
         \E r \in {updateTask(taskId, updates, wok)} :
           LET notFound == findIndex(listTasks, taskId) = 0
           IN  /\ Unasked(available /\ r.write # "none", wok)
               /\ UNCHANGED <<available, defaultCategories, defaultSettings, probeFailed,
                            categoriesSlot, settingsSlot, now>>
               /\ tasksSlot' = r.slot
               /\ last' = [op |-> "updateTask", id |-> taskId, arg |-> updates,
                           ret |-> r.ret,
                           write |-> r.write, raised |-> r.raised]
               /\ refTasks' = IF r.ret \/ notFound
                              THEN RefUpdate(refTasks, taskId, updates)
                              ELSE listTasks'
               /\ toggleRun' = NoRun

DeleteTask ==
    /\ Called
    /\ UNCHANGED sessionVars
    /\ \E taskId \in IdInputs, wok \in BOOLEAN :
         \E r \in {deleteTask(taskId, wok)} :
           LET notFound == findIndex(listTasks, taskId) = 0
           IN  /\ Unasked(available /\ r.write # "none", wok)
               /\ UNCHANGED <<available, defaultCategories, defaultSettings, probeFailed,
                            categoriesSlot, settingsSlot, now>>
               /\ tasksSlot' = r.slot
               /\ last' = [op |-> "deleteTask", id |-> taskId, arg |-> EmptyObject,
                           ret |-> r.ret,
                           write |-> r.write, raised |-> r.raised]
               /\ refTasks' = IF r.ret \/ notFound
                              THEN RefDelete(refTasks, taskId)
                              ELSE listTasks'
               /\ toggleRun' = NoRun

ToggleTaskComplete ==
    /\ Called
    /\ UNCHANGED sessionVars
    /\ \E taskId \in IdInputs, wok \in BOOLEAN :
         \E r \in {toggleTaskComplete(taskId, wok)} :
           LET i == findIndex(listTasks, taskId)
           IN  /\ Unasked(available /\ r.write # "none", wok)
               /\ UNCHANGED <<available, defaultCategories, defaultSettings, probeFailed,
                            categoriesSlot, settingsSlot, now>>
               /\ tasksSlot' = r.slot
               /\ last' = [op |-> "toggleTaskComplete", id |-> taskId,
                           arg |-> EmptyObject, ret |-> r.ret,
                           write |-> r.write, raised |-> r.raised]
               /\ refTasks' = listTasks'
               /\ toggleRun' = NextRun(i, getTaskById(taskId), r.ret)

ClearCompletedTasks ==
    /\ Called
    /\ UNCHANGED sessionVars
    /\ \E wok \in BOOLEAN :
         \E r \in {clearCompletedTasks(wok)} :
           /\ Unasked(available /\ r.write # "none", wok)
           /\ UNCHANGED <<available, defaultCategories, defaultSettings, probeFailed,
                        categoriesSlot, settingsSlot, now>>
           /\ tasksSlot' = r.slot
           /\ last' = [op |-> "clearCompletedTasks", id |-> "",
                       arg |-> [removed |-> Len(listTasks) - Len(listTasks')],
                       ret |-> r.ret,
                       write |-> r.write, raised |-> r.raised]
           /\ refTasks' = listTasks'
           /\ toggleRun' = NoRun

ImportDataFrom(docs) ==
    /\ Called
    /\ UNCHANGED sessionVars
    /\ \E doc \in docs, w1 \in BOOLEAN, w2 \in BOOLEAN, w3 \in BOOLEAN :
         \E r \in {importData(doc, w1, w2, w3)} :
           /\ Unasked(available /\ r.ret, w1 /\ w2)
           /\ Unasked(available /\ r.ret /\ ~Falsy(doc.settings), w3)
           /\ UNCHANGED <<available, defaultCategories, defaultSettings, probeFailed, now>>
           /\ tasksSlot' = r.tasks
           /\ categoriesSlot' = r.categories
           /\ settingsSlot' = r.settings
           /\ last' = [op |-> "importData", id |-> "", arg |-> doc,
                       ret |-> r.ret,
                       write |-> ImportWrites(doc, r, w1, w2, w3),
                       raised |-> r.raised]
           /\ refTasks' = listTasks'
           /\ toggleRun' = NoRun

\* An import of one of the documents of a first run, and of any document.
ImportData == ImportDataFrom(ImportInputs)
ImportAnyData == ImportDataFrom(StoreImportInputs)

ClearAllData ==
    /\ Called
    /\ UNCHANGED sessionVars
    /\ \E w1 \in BOOLEAN, w2 \in BOOLEAN, w3 \in BOOLEAN :
         \E r \in {clearAllData(w1, w2, w3)} :
           /\ Unasked(available, w1 /\ w2 /\ w3)
           /\ UNCHANGED <<available, defaultCategories, defaultSettings, probeFailed, now>>
           /\ tasksSlot' = r.tasks
           /\ categoriesSlot' = r.categories
           /\ settingsSlot' = r.settings
           /\ last' = [op |-> "clearAllData", id |-> "", arg |-> EmptyObject,
                       ret |-> r.ret,
                       write |-> "several", raised |-> r.raised]
           /\ refTasks' = listTasks'
           /\ toggleRun' = NoRun

\* Time passes before a call.
Tick ==
    /\ calls < budget
    /\ now < MaxTime
    /\ now' = now + 1
    /\ UNCHANGED sessionVars
    /\ UNCHANGED <<available, defaultCategories, defaultSettings, probeFailed,
                   tasksSlot, categoriesSlot, settingsSlot, calls, budget, last,
                   refTasks, toggleRun>>

\* Mutant: the default settings are saved along with the categories.
AddCategoryAlsoSavesSettings ==
    /\ Called
    /\ UNCHANGED sessionVars
    /\ \E category \in CategoryInputs, wok \in BOOLEAN :
         \E r \in {addCategory(category, wok)} :
           /\ Unasked(available /\ r.write # "none", wok)
           /\ UNCHANGED <<available, defaultSettings, probeFailed, tasksSlot,
                          now>>
           /\ settingsSlot' = StringifyRecord(DEFAULT_SETTINGS)
           /\ categoriesSlot' = r.slot
           /\ defaultCategories' = r.defaults
           /\ last' = [op |-> "addCategory", id |-> NewCategoryId, arg |-> category,
                       ret |-> r.ret, write |-> r.write, raised |-> r.raised]
           /\ refTasks' = listTasks'
           /\ toggleRun' = NoRun

AddCategory ==
    /\ Called
    /\ UNCHANGED sessionVars
    /\ \E category \in CategoryInputs, wok \in BOOLEAN :
         \E r \in {addCategory(category, wok)} :
           /\ Unasked(available /\ r.write # "none", wok)
           /\ UNCHANGED <<available, defaultSettings, probeFailed, tasksSlot,
                          settingsSlot, now>>
           /\ categoriesSlot' = r.slot
           /\ defaultCategories' = r.defaults
           /\ last' = [op |-> "addCategory", id |-> NewCategoryId, arg |-> category,
                       ret |-> r.ret, write |-> r.write, raised |-> r.raised]
           /\ refTasks' = listTasks'
           /\ toggleRun' = NoRun

UpdateSetting ==
    /\ Called
    /\ UNCHANGED sessionVars
    /\ \E kv \in SettingInputs, wok \in BOOLEAN :
         \E r \in {updateSetting(kv[1], kv[2], wok)} :
           /\ Unasked(available /\ r.write # "none", wok)
           /\ UNCHANGED <<available, defaultCategories, probeFailed, tasksSlot,
                          categoriesSlot, now>>
           /\ settingsSlot' = r.slot
           /\ defaultSettings' = r.defaults
           /\ last' = [op |-> "updateSetting", id |-> kv[1],
                       arg |-> [value |-> kv[2]],
                       ret |-> r.ret, write |-> r.write, raised |-> r.raised]
           /\ refTasks' = listTasks'
           /\ toggleRun' = NoRun

\* The file exportData() has just produced is handed to importData
\* (AppController.exportData, then AppController.importData on that file).
ExportImport ==
    /\ Called
    /\ UNCHANGED sessionVars
    /\ \E w1 \in BOOLEAN, w2 \in BOOLEAN, w3 \in BOOLEAN :
         \E doc \in {exportData} :
           \E r \in {importData(doc, w1, w2, w3)} :
             /\ Unasked(available /\ r.ret, w1 /\ w2)
             /\ Unasked(available /\ r.ret /\ ~Falsy(doc.settings), w3)
             /\ UNCHANGED <<available, defaultCategories, defaultSettings,
                            probeFailed, now>>
             /\ tasksSlot' = r.tasks
             /\ categoriesSlot' = r.categories
             /\ settingsSlot' = r.settings
             /\ last' = [op |-> "exportImport", id |-> "", arg |-> doc,
                         ret |-> r.ret,
                         write |-> ImportWrites(doc, r, w1, w2, w3),
                         raised |-> r.raised]
             /\ refTasks' = listTasks'
             /\ toggleRun' = NoRun

\* The methods that only read: no setItem is called and nothing is assigned.
ReadNames ==
    {"getTasks", "getCategories", "getSettings", "getTaskById", "getCategoryById",
     "exportData"}

Read ==
    /\ Called
    /\ UNCHANGED sessionVars
    /\ \E name \in ReadNames, taskId \in IdInputs :
         \E r \in {CASE name = "getTasks" -> getTasksCall
                      [] name = "getCategories" -> getCategoriesCall
                      [] name = "getSettings" -> getSettingsCall
                      [] name = "getTaskById" -> getTaskByIdCall(taskId)
                      [] name = "getCategoryById" -> getCategoryByIdCall("cat_1")
                      [] OTHER -> exportDataCall} :
           last' = [op |-> name, id |-> "", arg |-> EmptyObject, ret |-> TRUE,
                    write |-> "none", raised |-> r.raised]
    /\ UNCHANGED <<available, defaultCategories, defaultSettings, probeFailed,
                   tasksSlot, categoriesSlot, settingsSlot, now, refTasks, toggleRun>>

\* The store can be used again (storage is granted or freed).
StoreRecovers ==
    /\ ~available
    /\ available' = TRUE
    /\ UNCHANGED sessionVars
    /\ UNCHANGED <<defaultCategories, defaultSettings, probeFailed, tasksSlot,
                   categoriesSlot, settingsSlot, now, calls, budget, last,
                   toggleRun>>
    /\ refTasks' = listTasks'

Next ==
    \/ AddTask
    \/ UpdateTask
    \/ DeleteTask
    \/ ToggleTaskComplete
    \/ ClearCompletedTasks
    \/ ImportData
    \/ ClearAllData
    \/ Tick

Spec == Init /\ [][Next]_vars

\* A session over whatever the store holds at load: initialize() has run on
\* it (line 441), with the three seeding writes succeeding or failing.
StoreInit ==
    /\ available \in BOOLEAN
    /\ defaultCategories = DEFAULT_CATEGORIES
    /\ defaultSettings = DEFAULT_SETTINGS
    /\ probeFailed = ~available
    /\ \E held \in StoreConditions, wok \in BOOLEAN :
          LET loaded == initialize(held.tasks, held.categories, held.settings,
                                   wok, wok, wok)
          IN  /\ tasksSlot = loaded.tasks
              /\ categoriesSlot = loaded.categories
              /\ settingsSlot = loaded.settings
    /\ now = 0
    /\ calls = 0
    /\ budget = MaxStoreCalls
    /\ last = NoCall
    /\ refTasks = listTasks
    /\ toggleRun = NoRun
    /\ SessionInit

StoreNext ==
    \/ AddTask
    \/ UpdateTask
    \/ DeleteTask
    \/ ToggleTaskComplete
    \/ ClearCompletedTasks
    \/ AddCategory
    \/ UpdateSetting
    \/ ImportAnyData
    \/ ExportImport
    \/ ClearAllData
    \/ Read
    \/ StoreRecovers
    \/ Tick

StoreSpec == StoreInit /\ [][StoreNext]_vars

\* A session of the page: the store holds a task list, the default
\* categories and the default settings, loadData() has read them into the
\* session state, and the page's selects hold any of their values.
ViewInit ==
    /\ available = TRUE
    /\ defaultCategories = DEFAULT_CATEGORIES
    /\ defaultSettings = DEFAULT_SETTINGS
    /\ probeFailed = FALSE
    /\ \E tasks \in ViewLists : tasksSlot = StringifyArray(tasks)
    /\ categoriesSlot = StringifyArray(DEFAULT_CATEGORIES)
    /\ settingsSlot = StringifyRecord(DEFAULT_SETTINGS)
    /\ now = 0
    /\ calls = 0
    /\ budget = 0
    /\ last = NoCall
    /\ refTasks = listTasks
    /\ toggleRun = NoRun
    /\ currentTasks = getTasks
    /\ currentCategories = getCategories
    /\ currentSettings = getSettings
    /\ searchInput = ""
    /\ categoryFilter \in CategoryFilterInputs
    /\ statusFilter \in StatusFilterInputs
    /\ sortSelect \in SortSelectInputs
    /\ rendered = NotRendered
    /\ stats = NoStats
    /\ modal = NoModal
    /\ reading = {}
    /\ imported = FALSE

\* What applyFiltersAndSort() does to the session and the page; on a session
\* list that is no array the spread throws before anything is rendered.
Render ==
    /\ currentTasks.kind = "array"
    /\ \E r \in {applyFiltersAndSort(currentTasks.items, searchInput', categoryFilter,
                                      statusFilter, sortSelect)} :
          /\ rendered' = [done |-> TRUE, items |-> r.view]
          /\ currentTasks' = [currentTasks EXCEPT !.items = r.tasks]
    /\ UNCHANGED <<available, defaultCategories, defaultSettings, tasksSlot,
                   categoriesSlot, settingsSlot, now, calls, budget, last, refTasks,
                   toggleRun, probeFailed, currentCategories, currentSettings,
                   categoryFilter, statusFilter, sortSelect, stats, modal, reading,
                   imported>>

\* initializeUI() renders the loaded tasks (app.js 68).
ApplyFiltersAndSort ==
    /\ searchInput' = searchInput
    /\ Render

\* The 'input' event of the search box: the text typed is there, and the
\* handler calls applyFiltersAndSort() (app.js 141-143).
SearchInput ==
    /\ \E text \in SearchInputs : searchInput' = text
    /\ Render

ViewNext ==
    \/ ApplyFiltersAndSort
    \/ SearchInput

ViewSpec == ViewInit /\ [][ViewNext]_vars

-----------------------------------------------------------------------------
(* The load of storage.js: StorageManager.initialize() (line 441) on        *)
(* whatever each slot holds, and again at the next load of the page.        *)

\* What a slot can hold at a load: nothing, the empty text, text that is no
\* JSON, JSON of the wrong shape, the text null, and a value of the slot.
ListTexts ==
    {AbsentList, EmptyList, GarbageList, OtherList, NullList, StringifyArray(<<>>),
     StringifyArray(<<ImportedTask>>)}
RecordTexts ==
    {AbsentRecord, EmptyRecord, GarbageRecord, OtherRecord, NullRecord,
     StringifyRecord([DEFAULT_SETTINGS EXCEPT !.theme = "dark"])}

LoadInit ==
    /\ available \in BOOLEAN
    /\ defaultCategories = DEFAULT_CATEGORIES
    /\ defaultSettings = DEFAULT_SETTINGS
    /\ probeFailed = FALSE
    /\ tasksSlot \in ListTexts
    /\ categoriesSlot \in ListTexts
    /\ settingsSlot \in RecordTexts
    /\ now = 0
    /\ calls = 0
    /\ budget = MaxLoads
    /\ last = NoCall
    /\ refTasks = <<>>
    /\ toggleRun = NoRun
    /\ SessionInit

\* One load: the probe, then the three seeding writes, each allowed by the
\* quota or not (arg keeps the quota's answers).
Initialize ==
    /\ Called
    /\ UNCHANGED sessionVars
    /\ \E w1 \in BOOLEAN, w2 \in BOOLEAN, w3 \in BOOLEAN :
         \E r \in {initialize(tasksSlot, categoriesSlot, settingsSlot, w1, w2, w3)} :
           /\ Unasked(available /\ NoText(tasksSlot), w1)
           /\ Unasked(available /\ NoText(categoriesSlot), w2)
           /\ Unasked(available /\ NoText(settingsSlot), w3)
           /\ tasksSlot' = r.tasks
           /\ categoriesSlot' = r.categories
           /\ settingsSlot' = r.settings
           /\ probeFailed' = ~available
           /\ last' = [op |-> "initialize", id |-> "",
                       arg |-> [tasks |-> w1, categories |-> w2, settings |-> w3],
                       ret |-> available, write |-> "several", raised |-> FALSE]
           /\ UNCHANGED <<available, defaultCategories, defaultSettings, now,
                          refTasks, toggleRun>>

LoadNext == Initialize

LoadSpec == LoadInit /\ [][LoadNext]_vars

-----------------------------------------------------------------------------
(* The Coordinator: AppController (app.js) over the StorageManager.  A     *)
(* session of the page on a first-run store; one action per event handler, *)
(* continuation or callback.                                               *)

\* What the task form holds at a submit: the five fields filled in; a title
\* of blanks; no category chosen; the date cleared.
FilledForm ==
    [title |-> " A ", description |-> "", category |-> "cat_1", priority |-> "low",
     dueDate |-> "2026-02-01"]
FormInputs ==
    {FilledForm, [FilledForm EXCEPT !.title = " "], [FilledForm EXCEPT !.category = ""],
     [FilledForm EXCEPT !.dueDate = ""]}

\* What the category form holds at a submit.
CategoryFormInputs ==
    {[name |-> n, color |-> "#3b82f6"] : n \in {" Urgent", " "}}

\* The files handed to importData: a snapshot with settings, a snapshot
\* without settings whose task has no title, a text that is no JSON, and a
\* file the reader fails on.
UntitledDoc ==
    [kind |-> "object",
     tasks |-> Arr(<<[id |-> "task_untitled", completed |-> TRUE]>>),
     categories |-> Arr(DEFAULT_CATEGORIES), settings |-> AbsentRecord]
AppImportInputs == {UncheckedDoc, UntitledDoc, GarbageDoc}
FileInputs ==
    {[doc |-> d, readable |-> TRUE] : d \in AppImportInputs} \cup
    {[doc |-> GarbageDoc, readable |-> FALSE]}

\* The values the change handlers of the selects are handed (the sort keys
\* that compare no title).
AppSortInputs == {"date", "priority"}
AppSearchInputs == {"", "A "}
AppStatusInputs == {"all", "completed"}

\* this.state.currentCategories and this.state.settings as they read: the
\* default array or object itself when a read handed that out.
SessionCategories ==
    IF currentCategories.shared THEN defaultCategories ELSE currentCategories.items
SessionSettings ==
    IF currentSettings.shared THEN defaultSettings ELSE currentSettings.obj

\* UIManager.updateStats(tasks) (ui.js 126-135)
updateStats(tasks) ==
    LET total == Len(tasks)
        completed == Cardinality({i \in 1..Len(tasks) : IsCompleted(tasks[i])})
    IN  [done |-> TRUE, total |-> total, completed |-> completed,
         pending |-> total - completed]

\* The ids of the task cards on the page.
CardIds == {rendered.items[i].id : i \in 1..Len(rendered.items)}

\* The value a select holds after value = v: "" when no option has it.
SelectValue(options, v) == IF v \in options THEN v ELSE ""

\* settings.key || fallback
OrElse(settings, key, fallback) ==
    IF Has(settings, key) /\ settings[key] # "" THEN settings[key] ELSE fallback

\* applyFiltersAndSort() on the session list tasks: task.title.toLowerCase()
\* throws on a task without title once there is a search term, and the
\* spread throws on what is no array; then nothing is rendered.
ViewOf(tasks) ==
    IF \/ tasks.kind # "array"
       \/ /\ trim(toLowerCase(searchInput)) # ""
          /\ \E i \in 1..Len(tasks.items) : ~Has(tasks.items[i], "title")
    THEN [raised |-> TRUE, view |-> <<>>]
    ELSE [raised |-> FALSE,
          view |-> applyFiltersAndSort(tasks.items, searchInput, categoryFilter,
                                       statusFilter, sortSelect).view]

\* handleTaskSubmit() up to its Repository call (app.js 212-245): called is
\* whether one was made.
handleTaskSubmitUntrimmed(taskId, form, rnd, wok) ==
    LET taskData == [form EXCEPT !.title = trim(@), !.description = trim(@)]
    IN  IF form.title = "" \/ taskData.category = "" \/ taskData.dueDate = ""
        THEN Failed @@ [called |-> FALSE]
        ELSE IF taskId # "" THEN updateTask(taskId, taskData, wok) @@ [called |-> TRUE]
        ELSE addTask(taskData, rnd, wok) @@ [called |-> TRUE]
handleTaskSubmit(taskId, form, rnd, wok) ==
    LET taskData == [form EXCEPT !.title = trim(@), !.description = trim(@)]
    IN  IF taskData.title = "" \/ taskData.category = "" \/ taskData.dueDate = ""
        THEN Failed @@ [called |-> FALSE]
        ELSE IF taskId # "" THEN updateTask(taskId, taskData, wok) @@ [called |-> TRUE]
        ELSE addTask(taskData, rnd, wok) @@ [called |-> TRUE]

\* A handler that calls no Repository operation that writes.
UiEvent(op) == [NoCall EXCEPT !.op = op]

\* The frame of a handler: the store is usable or not for the whole
\* session, and the oracle's history is not kept here.
AppFrame == UNCHANGED <<available, probeFailed, refTasks, toggleRun>>

\* loadData() (app.js 54-58), after the writes of the step.
LoadData ==
    /\ currentTasks' = getTasks'
    /\ currentCategories' = getCategories'
    /\ currentSettings' = getSettings'

\* applyFiltersAndSort(); UIManager.updateStats(this.state.currentTasks) on
\* the session list the step leaves: an exception ends the handler.
RenderAndCount(v) ==
    /\ rendered' = IF v.raised THEN rendered ELSE [done |-> TRUE, items |-> v.view]
    /\ stats' = IF v.raised THEN stats
                ELSE updateStats(currentTasks'.items)

\* The session is left as it is.
SessionKept == UNCHANGED <<currentTasks, currentCategories, currentSettings>>
PageKept == UNCHANGED <<searchInput, categoryFilter, statusFilter, sortSelect>>

\* AppController.init() on a first-run store: loadData() and initializeUI().
AppInit ==
    /\ available \in BOOLEAN
    /\ defaultCategories = DEFAULT_CATEGORIES
    /\ defaultSettings = DEFAULT_SETTINGS
    /\ probeFailed = ~available
    /\ LET seeded == initialize(AbsentList, AbsentList, AbsentRecord, TRUE, TRUE, TRUE)
       IN  /\ tasksSlot = seeded.tasks
           /\ categoriesSlot = seeded.categories
           /\ settingsSlot = seeded.settings
    /\ now = 0
    /\ calls = 0
    /\ budget = MaxAppCalls
    /\ last = NoCall
    /\ refTasks = <<>>
    /\ toggleRun = NoRun
    /\ currentTasks = getTasks
    /\ currentCategories = getCategories
    /\ currentSettings = getSettings
    /\ searchInput = ""
    /\ categoryFilter = "all"
    /\ statusFilter = "all"
    /\ sortSelect = "date"
    /\ rendered = [done |-> TRUE, items |-> <<>>]
    /\ stats = updateStats(<<>>)
    /\ modal = NoModal
    /\ reading = {}
    /\ imported = FALSE

\* The click on 'addTaskBtn': UIManager.showTaskModal() in add mode.
ShowTaskModal ==
    /\ Called
    /\ last' = UiEvent("showTaskModal")
    /\ modal.kind = "none"
    /\ modal' = [kind |-> "add", id |-> ""]
    /\ UNCHANGED <<available, defaultCategories, defaultSettings, tasksSlot,
                   categoriesSlot, settingsSlot, now, refTasks,
                   toggleRun, probeFailed, currentTasks, currentCategories,
                   currentSettings, searchInput, categoryFilter, statusFilter,
                   sortSelect, rendered, stats, reading, imported>>

\* editTask(taskId) from a card (app.js 290-295): the form keeps the id.
EditTask ==
    /\ Called
    /\ last' = UiEvent("editTask")
    /\ modal.kind = "none"
    /\ \E taskId \in CardIds :
          /\ getTaskById(taskId) # EmptyObject
          /\ modal' = [kind |-> "edit", id |-> getTaskById(taskId).id]
    /\ UNCHANGED <<available, defaultCategories, defaultSettings, tasksSlot,
                   categoriesSlot, settingsSlot, now, refTasks,
                   toggleRun, probeFailed, currentTasks, currentCategories,
                   currentSettings, searchInput, categoryFilter, statusFilter,
                   sortSelect, rendered, stats, reading, imported>>

\* The cancel buttons of the modals (app.js 95-102, 126-128).
HideModal ==
    /\ Called
    /\ last' = UiEvent("hideModal")
    /\ modal.kind # "none"
    /\ modal' = NoModal
    /\ UNCHANGED <<available, defaultCategories, defaultSettings, tasksSlot,
                   categoriesSlot, settingsSlot, now, refTasks,
                   toggleRun, probeFailed, currentTasks, currentCategories,
                   currentSettings, searchInput, categoryFilter, statusFilter,
                   sortSelect, rendered, stats, reading, imported>>

\* The submit of the task form (app.js 212-256).
HandleTaskSubmit ==
    /\ Called
    /\ modal.kind \in {"add", "edit"}
    /\ AppFrame /\ PageKept
    /\ UNCHANGED <<defaultCategories, defaultSettings, categoriesSlot, settingsSlot,
                   now, reading, imported>>
    /\ \E form \in FormInputs, rnd \in RandomSuffixes, wok \in BOOLEAN :
         \E r \in {handleTaskSubmit(modal.id, form, rnd, wok)} :
           /\ Unasked(available /\ r.write # "none", wok)
           /\ tasksSlot' = r.slot
           /\ IF r.ret
              THEN /\ LoadData
                   /\ \E v \in {ViewOf(getTasks')} :
                        /\ RenderAndCount(v)
                        /\ modal' = IF v.raised THEN modal ELSE NoModal
                        /\ last' = [op |-> "handleTaskSubmit", id |-> modal.id,
                                    arg |-> form @@ [called |-> r.called],
                                    ret |-> TRUE, write |-> r.write,
                                    raised |-> v.raised]
              ELSE /\ SessionKept
                   /\ UNCHANGED <<rendered, stats, modal>>
                   /\ last' = [op |-> "handleTaskSubmit", id |-> modal.id,
                               arg |-> form @@ [called |-> r.called],
                               ret |-> FALSE, write |-> r.write, raised |-> FALSE]

\* deleteTask(taskId) from a card (app.js 301-328): the confirmation is shown
\* for a task that is stored.
AskDeleteTask ==
    /\ Called
    /\ last' = UiEvent("deleteTask?")
    /\ modal.kind = "none"
    /\ \E taskId \in CardIds :
          /\ getTaskById(taskId) # EmptyObject
          /\ modal' = [kind |-> "delete", id |-> taskId]
    /\ UNCHANGED <<available, defaultCategories, defaultSettings, tasksSlot,
                   categoriesSlot, settingsSlot, now, refTasks,
                   toggleRun, probeFailed, currentTasks, currentCategories,
                   currentSettings, searchInput, categoryFilter, statusFilter,
                   sortSelect, rendered, stats, reading, imported>>

\* The confirmed deletion (app.js 308-326): the card is removed, and the
\* list is rendered again only when no task is left.
ConfirmDeleteTask ==
    /\ Called
    /\ modal.kind = "delete"
    /\ AppFrame /\ PageKept
    /\ UNCHANGED <<defaultCategories, defaultSettings, categoriesSlot, settingsSlot,
                   now, reading, imported>>
    /\ modal' = NoModal
    /\ \E wok \in BOOLEAN :
         \E r \in {deleteTask(modal.id, wok)} :
           /\ Unasked(available /\ r.write # "none", wok)
           /\ tasksSlot' = r.slot
           /\ last' = [op |-> "deleteTask", id |-> modal.id, arg |-> EmptyObject,
                       ret |-> r.ret, write |-> r.write, raised |-> FALSE]
           /\ IF r.ret
              THEN /\ LoadData
                   /\ stats' = updateStats(getTasks'.items)
                   /\ rendered' =
                        IF Len(getTasks'.items) = 0 THEN [done |-> TRUE, items |-> <<>>]
                        ELSE [rendered EXCEPT !.items =
                                SelectSeq(@, LAMBDA t : t.id # modal.id)]
              ELSE SessionKept /\ UNCHANGED <<rendered, stats>>

\* toggleComplete(taskId) from the checkbox of a card (app.js 334-343).
ToggleComplete ==
    /\ Called
    /\ modal.kind = "none"
    /\ AppFrame /\ PageKept
    /\ UNCHANGED <<defaultCategories, defaultSettings, categoriesSlot, settingsSlot,
                   now, reading, imported, modal>>
    /\ \E taskId \in CardIds, wok \in BOOLEAN :
         \E r \in {toggleTaskComplete(taskId, wok)} :
           /\ Unasked(available /\ r.write # "none", wok)
           /\ tasksSlot' = r.slot
           /\ IF r.ret
              THEN /\ LoadData
                   /\ \E v \in {ViewOf(getTasks')} :
                        /\ RenderAndCount(v)
                        /\ last' = [op |-> "toggleComplete", id |-> taskId,
                                    arg |-> EmptyObject, ret |-> TRUE,
                                    write |-> r.write, raised |-> v.raised]
              ELSE /\ SessionKept
                   /\ UNCHANGED <<rendered, stats>>
                   /\ last' = [op |-> "toggleComplete", id |-> taskId,
                               arg |-> EmptyObject, ret |-> FALSE,
                               write |-> r.write, raised |-> FALSE]

\* clearCompletedTasks() (app.js 348-373): the confirmation is shown when
\* the session list has a completed task.
AskClearCompleted ==
    /\ Called
    /\ last' = UiEvent("clearCompletedTasks?")
    /\ modal.kind = "none"
    /\ currentTasks.kind = "array"
    /\ \E i \in 1..Len(currentTasks.items) : IsCompleted(currentTasks.items[i])
    /\ modal' = [kind |-> "clear", id |-> ""]
    /\ UNCHANGED <<available, defaultCategories, defaultSettings, tasksSlot,
                   categoriesSlot, settingsSlot, now, refTasks,
                   toggleRun, probeFailed, currentTasks, currentCategories,
                   currentSettings, searchInput, categoryFilter, statusFilter,
                   sortSelect, rendered, stats, reading, imported>>

\* The confirmed clearing (app.js 359-372).
ConfirmClearCompleted ==
    /\ Called
    /\ modal.kind = "clear"
    /\ AppFrame /\ PageKept
    /\ UNCHANGED <<defaultCategories, defaultSettings, categoriesSlot, settingsSlot,
                   now, reading, imported>>
    /\ modal' = NoModal
    /\ \E wok \in BOOLEAN :
         \E r \in {clearCompletedTasks(wok)} :
           /\ Unasked(available /\ r.write # "none", wok)
           /\ tasksSlot' = r.slot
           /\ IF r.ret
              THEN /\ LoadData
                   /\ \E v \in {ViewOf(getTasks')} :
                        /\ RenderAndCount(v)
                        /\ last' = [op |-> "clearCompletedTasks", id |-> "",
                                    arg |-> EmptyObject, ret |-> TRUE,
                                    write |-> r.write, raised |-> v.raised]
              ELSE /\ SessionKept
                   /\ UNCHANGED <<rendered, stats>>
                   /\ last' = [op |-> "clearCompletedTasks", id |-> "",
                               arg |-> EmptyObject, ret |-> FALSE,
                               write |-> r.write, raised |-> FALSE]

\* The submit of the category form (app.js 261-284): the categories alone
\* are read again.
HandleCategorySubmit ==
    /\ Called
    /\ modal.kind = "none"
    /\ AppFrame /\ PageKept
    /\ UNCHANGED <<defaultSettings, tasksSlot, settingsSlot, now, reading, imported,
                   modal, rendered, stats, currentTasks, currentSettings>>
    /\ \E form \in CategoryFormInputs, wok \in BOOLEAN :
         LET categoryData == [form EXCEPT !.name = trim(@)]
         IN  IF categoryData.name = ""
             THEN /\ Unasked(FALSE, wok)
                  /\ UNCHANGED <<categoriesSlot, defaultCategories, currentCategories>>
                  /\ last' = [op |-> "handleCategorySubmit", id |-> "",
                              arg |-> form @@ [called |-> FALSE], ret |-> FALSE,
                              write |-> "none", raised |-> FALSE]
             ELSE \E r \in {addCategory(categoryData, wok)} :
                    /\ Unasked(available /\ r.write # "none", wok)
                    /\ categoriesSlot' = r.slot
                    /\ defaultCategories' = r.defaults
                    /\ currentCategories' = IF r.ret THEN getCategories'
                                            ELSE currentCategories
                    /\ last' = [op |-> "handleCategorySubmit", id |-> NewCategoryId,
                                arg |-> form @@ [called |-> TRUE], ret |-> r.ret,
                                write |-> r.write, raised |-> FALSE]

\* The 'change' handlers of the three selects (app.js 146-161): the setting
\* is stored, its result is not looked at, and the view is derived again.
SelectChanged(key, value, r) ==
    /\ Called
    /\ modal.kind = "none"
    /\ AppFrame /\ SessionKept
    /\ UNCHANGED <<defaultCategories, tasksSlot, categoriesSlot, now, reading,
                   imported, modal, stats, searchInput>>
    /\ settingsSlot' = r.slot
    /\ defaultSettings' = r.defaults
    /\ \E v \in {ViewOf(currentTasks)'} :
          /\ rendered' = IF v.raised THEN rendered ELSE [done |-> TRUE, items |-> v.view]
          /\ last' = [op |-> "change", id |-> key, arg |-> [value |-> value],
                      ret |-> r.ret, write |-> r.write, raised |-> v.raised]

CategoryFilterChange ==
    \E value \in CategoryFilterInputs, wok \in BOOLEAN :
      \E r \in {updateSetting("filterCategory", value, wok)} :
        /\ Unasked(available /\ r.write # "none", wok)
        /\ categoryFilter' = value
        /\ UNCHANGED <<statusFilter, sortSelect>>
        /\ SelectChanged("filterCategory", value, r)

StatusFilterChange ==
    \E value \in AppStatusInputs, wok \in BOOLEAN :
      \E r \in {updateSetting("filterStatus", value, wok)} :
        /\ Unasked(available /\ r.write # "none", wok)
        /\ statusFilter' = value
        /\ UNCHANGED <<categoryFilter, sortSelect>>
        /\ SelectChanged("filterStatus", value, r)

SortSelectChange ==
    \E value \in AppSortInputs, wok \in BOOLEAN :
      \E r \in {updateSetting("sortBy", value, wok)} :
        /\ Unasked(available /\ r.write # "none", wok)
        /\ sortSelect' = value
        /\ UNCHANGED <<categoryFilter, statusFilter>>
        /\ SelectChanged("sortBy", value, r)

\* The 'input' event of the search box (app.js 141-143).
AppSearchInput ==
    /\ Called
    /\ last' = UiEvent("input")
    /\ modal.kind = "none"
    /\ \E text \in AppSearchInputs :
          /\ text # searchInput
          /\ searchInput' = text
    /\ UNCHANGED <<available, defaultCategories, defaultSettings, tasksSlot,
                   categoriesSlot, settingsSlot, now, refTasks,
                   toggleRun, probeFailed, currentTasks, currentCategories,
                   currentSettings, categoryFilter, statusFilter, sortSelect,
                   stats, modal, reading, imported>>
    /\ \E v \in {ViewOf(currentTasks)'} :
          rendered' = IF v.raised THEN rendered ELSE [done |-> TRUE, items |-> v.view]

\* toggleTheme() (app.js 451-460): the theme is assigned to the session's
\* settings object whatever updateSetting returns.
toggleThemeChecksResult(settings, newTheme, ok) ==
    IF ok THEN Spread(settings, "theme" :> newTheme) ELSE settings
toggleTheme(settings, newTheme, ok) == Spread(settings, "theme" :> newTheme)

ToggleTheme ==
    /\ Called
    /\ modal.kind = "none"
    /\ AppFrame /\ PageKept
    /\ UNCHANGED <<defaultCategories, tasksSlot, categoriesSlot, now, reading,
                   imported, modal, stats, rendered, currentTasks, currentCategories>>
    /\ currentSettings.kind = "object"
    /\ \E wok \in BOOLEAN :
         LET newTheme == IF Text(SessionSettings, "theme") = "light" THEN "dark"
                         ELSE "light"
         IN  \E r \in {updateSetting("theme", newTheme, wok)} :
               /\ Unasked(available /\ r.write # "none", wok)
               /\ settingsSlot' = r.slot
               /\ defaultSettings' =
                     IF currentSettings.shared
                     THEN toggleTheme(r.defaults, newTheme, r.ret)
                     ELSE r.defaults
               /\ currentSettings' =
                     IF currentSettings.shared THEN currentSettings
                     ELSE [currentSettings EXCEPT
                             !.obj = toggleTheme(@, newTheme, r.ret)]
               /\ last' = [op |-> "toggleTheme", id |-> "theme",
                           arg |-> [value |-> newTheme], ret |-> r.ret,
                           write |-> r.write, raised |-> FALSE]

\* importData(file) (app.js 491-513): the read of the file is started.
RequestImport ==
    /\ Called
    /\ last' = UiEvent("importData")
    /\ modal.kind = "none"
    /\ Cardinality(reading) < MaxReads
    /\ \E file \in FileInputs \ reading : reading' = reading \cup {file}
    /\ UNCHANGED <<available, defaultCategories, defaultSettings, tasksSlot,
                   categoriesSlot, settingsSlot, now, refTasks,
                   toggleRun, probeFailed, currentTasks, currentCategories,
                   currentSettings, searchInput, categoryFilter, statusFilter,
                   sortSelect, rendered, stats, modal, imported>>

\* reader.onload (app.js 496-506) up to the end of the handler: loadData()
\* and initializeUI() after an import that returned true; the state to keep
\* is that of the success branch.
onloadAlwaysReloads(success) == TRUE
onload(success) == success

ReaderOnload ==
    /\ Called
    /\ AppFrame
    /\ UNCHANGED <<defaultCategories, defaultSettings, now, modal, searchInput>>
    /\ \E file \in {f \in reading : f.readable},
          w1 \in BOOLEAN, w2 \in BOOLEAN, w3 \in BOOLEAN :
         \E r \in {importData(file.doc, w1, w2, w3)} :
           /\ Unasked(available /\ r.ret, w1 /\ w2)
           /\ Unasked(available /\ r.ret /\ ~Falsy(file.doc.settings), w3)
           /\ reading' = reading \ {file}
           /\ tasksSlot' = r.tasks
           /\ categoriesSlot' = r.categories
           /\ settingsSlot' = r.settings
           /\ imported' = (imported \/ r.ret)
           /\ IF onload(r.ret)
              THEN /\ LoadData
                   /\ \E v \in {ViewOf(getTasks')} :
                        LET settings == getSettings'.obj
                            options == {"all"} \cup
                                       {getCategories'.items[i].id :
                                          i \in 1..Len(getCategories'.items)}
                        IN  /\ RenderAndCount(v)
                            /\ categoryFilter' =
                                 IF v.raised THEN categoryFilter
                                 ELSE SelectValue(options,
                                        OrElse(settings, "filterCategory", "all"))
                            /\ statusFilter' =
                                 IF v.raised THEN statusFilter
                                 ELSE SelectValue(StatusFilterInputs,
                                        OrElse(settings, "filterStatus", "all"))
                            /\ sortSelect' =
                                 IF v.raised THEN sortSelect
                                 ELSE SelectValue({"date", "priority", "alphabetical"},
                                        OrElse(settings, "sortBy", "date"))
                            /\ last' = [op |-> "onload", id |-> "", arg |-> file.doc,
                                        ret |-> r.ret,
                                        write |-> ImportWrites(file.doc, r, w1, w2, w3),
                                        raised |-> v.raised]
              ELSE /\ SessionKept
                   /\ UNCHANGED <<rendered, stats, categoryFilter, statusFilter,
                                  sortSelect>>
                   /\ last' = [op |-> "onload", id |-> "", arg |-> file.doc,
                               ret |-> r.ret, write |-> "none", raised |-> FALSE]

\* reader.onerror (app.js 508-510): a notification and nothing else.
ReaderOnerror ==
    /\ Called
    /\ \E file \in {f \in reading : ~f.readable} : reading' = reading \ {file}
    /\ last' = [op |-> "onerror", id |-> "", arg |-> EmptyObject, ret |-> FALSE,
                write |-> "none", raised |-> FALSE]
    /\ UNCHANGED <<available, defaultCategories, defaultSettings, tasksSlot,
                   categoriesSlot, settingsSlot, now, refTasks,
                   toggleRun, probeFailed, currentTasks, currentCategories,
                   currentSettings, searchInput, categoryFilter, statusFilter,
                   sortSelect, rendered, stats, modal, imported>>

AppNext ==
    \/ ShowTaskModal
    \/ EditTask
    \/ HideModal
    \/ HandleTaskSubmit
    \/ AskDeleteTask
    \/ ConfirmDeleteTask
    \/ ToggleComplete
    \/ AskClearCompleted
    \/ ConfirmClearCompleted
    \/ HandleCategorySubmit
    \/ CategoryFilterChange
    \/ StatusFilterChange
    \/ SortSelectChange
    \/ AppSearchInput
    \/ ToggleTheme
    \/ RequestImport
    \/ ReaderOnload
    \/ ReaderOnerror

AppSpec == AppInit /\ [][AppNext]_vars

-----------------------------------------------------------------------------
(* Vocabulary of the properties *)

\* The step is a Repository call named op that returned true.
Succeeded(op) == calls' = calls + 1 /\ last'.op = op /\ last'.ret

\* Reading o.k: the value, and whether it is there at all.
Absent(o, k) == k \notin DOMAIN o \/ o[k] = Null
IsTimestamp(o, k) == k \in DOMAIN o /\ Len(o[k]) = 1

\* The data model's invariant on one task.
LifecycleOk(t) ==
    /\ ("completed" \in DOMAIN t /\ ~t.completed) => Absent(t, "completedAt")
    /\ IsCompleted(t) => /\ IsTimestamp(t, "completedAt")
                         /\ IsTimestamp(t, "createdAt")
                         /\ t.completedAt[1] >= t.createdAt[1]

\* Some stored task has this id.
Stored(taskId) == \E i \in 1..Len(listTasks) : IdIs(listTasks[i], taskId)

\* a and b agree on every key outside ks, and have the same keys outside ks.
AgreeOutside(a, b, ks) ==
    /\ DOMAIN a \ ks = DOMAIN b \ ks
    /\ \A k \in DOMAIN a \ ks : a[k] = b[k]

\* new is old with position i replaced, nothing else touched.
OnlyChanged(old, new, i) ==
    /\ Len(new) = Len(old)
    /\ \A j \in 1..Len(old) : j # i => new[j] = old[j]

-----------------------------------------------------------------------------
(* C1..C10: tasks *)

\* C1: in every reachable state every stored task satisfies the data model's
\* invariant: completed = false implies completedAt is absent, completed =
\* true implies completedAt is a timestamp >= createdAt.
C1_LifecycleInvariant ==
    \A i \in 1..Len(listTasks) : LifecycleOk(listTasks[i])

\* C2: after every sequence of createTask, updateTask and deleteTask calls
\* whose writes succeed, listTasks() equals, in content and order, the
\* in-memory reference list the same calls produce.
C2_OracleEquivalence == SameList(refTasks, listTasks)

\* The oracle has followed a create, an update and a delete: the last call
\* deleted a task and the task that is left carries the form update.
C2_Witness ==
    /\ last.op = "deleteTask" /\ last.ret
    /\ Len(refTasks) = 1
    /\ refTasks[1].title = "C"

\* C3: createTask assigns an id that no task already in the collection has.
C3_FreshTaskId ==
    [][Succeeded("addTask") => ~Stored(last'.id)]_vars

\* C4: a successful createTask appends exactly one task, with completed =
\* false, completedAt absent, a non-empty id and createdAt the current
\* timestamp whatever the caller preset, and leaves the tasks stored before
\* unchanged and in order.
C4_CreateAppends ==
    [][Succeeded("addTask") =>
         LET old == listTasks
             new == listTasks'
             t == new[Len(new)]
         IN  /\ Len(new) = Len(old) + 1
             /\ SubSeq(new, 1, Len(old)) = old
             /\ t.completed = FALSE
             /\ t.completedAt = Null
             /\ t.id # ""
             /\ t.createdAt = toISOString(now)]_vars

\* A second task was created from an object that preset the four fields.
C4_Witness ==
    /\ last.op = "addTask" /\ last.ret
    /\ last.arg = PresetTask
    /\ Len(listTasks) = 2
    /\ now = MaxTime

\* C5: updateTask, with any partialFields, and toggleTaskCompletion leave
\* the id and createdAt of every stored task as they were.
C5_IdentityImmutable ==
    [][Succeeded("updateTask") \/ Succeeded("toggleTaskComplete") =>
         /\ Len(listTasks') = Len(listTasks)
         /\ \A i \in 1..Len(listTasks) :
               /\ listTasks'[i].id = listTasks[i].id
               /\ listTasks'[i].createdAt = listTasks[i].createdAt]_vars

\* C6: a successful updateTask(id, partialFields) replaces the task with
\* that id by the shallow merge: each field of partialFields reads as the
\* caller gave it, each other field keeps its value, and no other task and
\* no position changes.
C6_UpdateMerges ==
    [][Succeeded("updateTask") =>
         LET i == findIndex(listTasks, last'.id)
             updates == last'.arg
             old == listTasks[i]
             new == listTasks'[i]
         IN  /\ i # 0
             /\ OnlyChanged(listTasks, listTasks', i)
             /\ \A k \in DOMAIN updates :
                   IF Has(updates, k) THEN Has(new, k) /\ new[k] = updates[k]
                   ELSE ~Has(new, k)
             /\ AgreeOutside(old, new, DOMAIN updates)]_vars

\* The form's update was merged into a completed task while another task is
\* stored: the task keeps completed and completedAt.
C6_Witness ==
    /\ last.op = "updateTask" /\ last.ret
    /\ last.arg = FormUpdate
    /\ Len(listTasks) = 2
    /\ \E i \in 1..2 : /\ IdIs(listTasks[i], last.id)
                        /\ listTasks[i].title = "C"
                        /\ IsCompleted(listTasks[i])
                        /\ listTasks[i].completedAt # Null

\* C7: updateTask, deleteTask and toggleTaskCompletion with an id no stored
\* task has return failure and leave the three slots as they were.
C7_NotFound ==
    [][(/\ calls' = calls + 1
        /\ last'.op \in {"updateTask", "deleteTask", "toggleTaskComplete"}
        /\ ~Stored(last'.id)) =>
         /\ ~last'.ret
         /\ UNCHANGED <<tasksSlot, categoriesSlot, settingsSlot>>]_vars

\* A delete of an id nobody has, while two tasks are stored.
C7_Witness ==
    /\ last.op = "deleteTask"
    /\ last.id = MissingId
    /\ Len(listTasks) = 2

\* C8: a successful deleteTask(id) leaves no task with that id and keeps
\* every other task, unmodified and in the same order.
C8_DeleteRemoves ==
    [][Succeeded("deleteTask") =>
         /\ \A i \in 1..Len(listTasks') : ~IdIs(listTasks'[i], last'.id)
         /\ listTasks' = SelectSeq(listTasks, LAMBDA t : t.id # last'.id)]_vars

\* A task was deleted and another one is still stored.
C8_Witness ==
    /\ last.op = "deleteTask" /\ last.ret
    /\ Len(listTasks) = 1
    /\ calls = 3

\* C9: a successful toggleTaskCompletion(id) negates completed on the task
\* with that id, sets completedAt to the current timestamp when completed
\* is now true and clears it when it is now false, and changes nothing else.
C9_ToggleFlips ==
    [][Succeeded("toggleTaskComplete") =>
         LET i == findIndex(listTasks, last'.id)
             old == listTasks[i]
             new == listTasks'[i]
         IN  /\ i # 0
             /\ OnlyChanged(listTasks, listTasks', i)
             /\ new.completed = ~IsCompleted(old)
             /\ new.completedAt = IF new.completed THEN toISOString(now) ELSE Null
             /\ AgreeOutside(old, new, {"completed", "completedAt"})]_vars

\* A task created at time 0 was completed at time MaxTime, next to another.
C9_Witness ==
    /\ last.op = "toggleTaskComplete" /\ last.ret
    /\ Len(listTasks) = 2
    /\ now = MaxTime
    /\ \E i \in 1..2 : /\ IdIs(listTasks[i], last.id)
                        /\ listTasks[i].createdAt = toISOString(0)
                        /\ listTasks[i].completedAt = toISOString(MaxTime)

\* C10: two successive successful toggles of a task leave it identical to
\* what it was before them when it was incomplete (completed = false and
\* completedAt absent again), and identical except for the value of
\* completedAt when it was completed.
C10_ToggleTwice ==
    toggleRun.n = 2 =>
        LET before == toggleRun.task
            after == listTasks[toggleRun.idx]
        IN  IF IsCompleted(before)
            THEN AgreeOutside(before, after, {"completedAt"})
            ELSE /\ after = before
                 /\ after.completed = FALSE
                 /\ Absent(after, "completedAt")

\* The same, for a task that satisfied the data model's invariant before the
\* two toggles.
C10_ToggleTwiceWellFormed ==
    (toggleRun.n = 2 /\ LifecycleOk(toggleRun.task)) => C10_ToggleTwice

-----------------------------------------------------------------------------
(* C11..C20: clearing, categories, settings, the store's failures *)

\* The step is a Repository call named op, whatever it returned.
Made(op) == calls' = calls + 1 /\ last'.op = op

\* Two names are equal under case-insensitive comparison.
CaseFold(s) ==
    CASE s \in {"Work", "WORK"} -> "WORK"
      [] s = "Personal" -> "PERSONAL"
      [] s = "Shopping" -> "SHOPPING"
      [] s = "Health" -> "HEALTH"
      [] s = "Urgent" -> "URGENT"
      [] s = "Errands" -> "ERRANDS"
      [] OTHER -> s
SameName(a, b) == CaseFold(a) = CaseFold(b)

\* No two categories of the list have case-insensitively equal names.
NamesUnique(cs) ==
    \A i \in 1..Len(cs) : \A j \in 1..Len(cs) :
        (i # j /\ Has(cs[i], "name") /\ Has(cs[j], "name")) =>
            ~SameName(cs[i].name, cs[j].name)

\* The three slots hold what they held.
SlotsUnchanged == UNCHANGED <<tasksSlot, categoriesSlot, settingsSlot>>

\* What the three reads give on a store that holds nothing.
SeesDefaults ==
    /\ listTasks = <<>>
    /\ getCategories.kind = "array" /\ listCategories = DEFAULT_CATEGORIES
    /\ getSettings.kind = "object" /\ settingsRecord = DEFAULT_SETTINGS

\* C11: clearCompletedTasks() returns success whenever its write succeeds;
\* when it returns success the task list is the old one without the tasks
\* whose completed is true, the others unmodified and in the same order.
C11_ClearCompleted ==
    [][Made("clearCompletedTasks") =>
         /\ last'.write = "ok" => last'.ret
         /\ last'.ret =>
              /\ listTasks' = SelectSeq(listTasks, LAMBDA t : t.completed = FALSE)
              /\ \A i \in 1..Len(listTasks') : listTasks'[i].completed = FALSE]_vars

\* One completed task was removed and one incomplete task is left.
C11_Witness ==
    /\ last.op = "clearCompletedTasks" /\ last.ret
    /\ last.arg.removed = 1
    /\ Len(listTasks) = 1

\* C12: createCategory with a name case-insensitively equal to the name of
\* an existing category returns failure and leaves the categories as they
\* were; and a createCategory call never makes two names equal.
C12_DuplicateNameRejected ==
    [][Made("addCategory") =>
         /\ (\E i \in 1..Len(listCategories) :
                /\ Has(listCategories[i], "name")
                /\ SameName(listCategories[i].name, last'.arg.name)) =>
              /\ ~last'.ret
              /\ listCategories' = listCategories
              /\ categoriesSlot' = categoriesSlot
         /\ NamesUnique(listCategories) => NamesUnique(listCategories')]_vars

\* "WORK" was refused while the preset "Work" is stored.
C12_Witness ==
    /\ last.op = "addCategory" /\ ~last.ret
    /\ last.arg.name = "WORK"
    /\ available /\ categoriesSlot.kind = "array"
    /\ \E i \in 1..Len(listCategories) : listCategories[i].name = "Work"

\* C13: a successful createCategory assigns an id that no category already
\* in the collection has.
C13_FreshCategoryId ==
    [][Succeeded("addCategory") =>
         \A i \in 1..Len(listCategories) : ~IdIs(listCategories[i], last'.id)]_vars

\* C14: after a successful updateSetting(key, value), getSettings()[key] is
\* value and every other key of the settings record is as it was, for keys
\* outside the four default ones too.
C14_UpdateSettingStores ==
    [][Succeeded("updateSetting") =>
         LET key == last'.id
         IN  /\ key \in DOMAIN settingsRecord'
             /\ settingsRecord'[key] = last'.arg.value
             /\ AgreeOutside(settingsRecord, settingsRecord', {key})]_vars

\* The same, for a settings slot that holds a JSON object, nothing, or text
\* that JSON.parse throws on.
C14_UpdateSettingStoresObject ==
    [][(Succeeded("updateSetting") /\ getSettings.kind = "object") =>
         LET key == last'.id
         IN  /\ key \in DOMAIN settingsRecord'
             /\ settingsRecord'[key] = last'.arg.value
             /\ AgreeOutside(settingsRecord, settingsRecord', {key})]_vars

\* C15: after a successful resetAll() the task list is empty, the
\* categories are exactly the four presets and the settings exactly the
\* default record.
C15_ResetRestoresDefaults ==
    (last.op = "clearAllData" /\ last.ret) => SeesDefaults

\* C16: when the write of a mutating operation fails, the operation returns
\* failure and the three slots hold what they held before the call.
C16_WriteFailure ==
    [][(/\ calls' = calls + 1
        /\ last'.op \in {"addTask", "updateTask", "deleteTask", "toggleTaskComplete",
                         "clearCompletedTasks", "addCategory", "updateSetting"}
        /\ last'.write = "failed") =>
         /\ ~last'.ret
         /\ SlotsUnchanged]_vars

\* The quota refused the write of a toggle of the stored task.
C16_Witness ==
    /\ last.op = "toggleTaskComplete" /\ last.write = "failed"
    /\ available
    /\ Len(listTasks) = 1

\* C17: once the probe of the store has failed, no write of a slot succeeds
\* or changes a slot, and every read finds its slot absent (or unreadable),
\* also when the store can be used again.
C17_DegradedSticky ==
    [][probeFailed =>
         /\ SlotsUnchanged
         /\ calls' = calls + 1 => last'.write # "ok"
         /\ listTasks' = <<>>
         /\ getCategories'.shared
         /\ getSettings'.shared]_vars

\* C18: while the store cannot be used, the task list is empty, the
\* categories are exactly the four presets and the settings exactly the
\* default record, whatever calls were made.
C18_UnusableSeesDefaults == ~available => SeesDefaults

\* C19: when a slot holds text that JSON.parse throws on, or well-formed
\* text of the wrong shape, the read of that slot returns the slot's
\* default: the empty list, the default categories, the default settings.
C19_MalformedGivesDefault ==
    available =>
        /\ tasksSlot.kind \in {"garbage", "other", "null"} => getTasks = Arr(<<>>)
        /\ categoriesSlot.kind \in {"garbage", "other", "null"} =>
              (getCategories.kind = "array" /\ getCategories.shared)
        /\ settingsSlot.kind \in {"garbage", "other", "null"} =>
              (getSettings.kind = "object" /\ getSettings.shared)

\* C20: no operation raises to its caller: neither the last call made nor
\* any read that could be made now, whatever the store's condition.
C20_NeverRaises ==
    /\ ~last.raised
    /\ ~getTasksCall.raised
    /\ ~getCategoriesCall.raised
    /\ ~getSettingsCall.raised
    /\ ~exportDataCall.raised
    /\ \A taskId \in IdInputs : ~getTaskByIdCall(taskId).raised
    /\ \A categoryId \in {"cat_1", "cat_missing"} :
          ~getCategoryByIdCall(categoryId).raised

\* removeItem threw in clearAllData on a store that cannot be used, and the
\* reads of the wrong-shaped or unreadable slots are caught as well.
C20_Witness ==
    /\ ~available
    /\ last.op = "clearAllData" /\ ~last.ret
    /\ tasksSlot.kind = "garbage"

-----------------------------------------------------------------------------
(* C21..C23: the transfer of snapshots *)

\* The document is of the export format's shape as far as the import reads
\* it: an object whose tasks and categories are arrays and whose settings,
\* when there, is an object.
WellShaped(doc) ==
    /\ doc.kind = "object"
    /\ doc.tasks.kind = "array"
    /\ doc.categories.kind = "array"
    /\ doc.settings.kind \in {"object", "absent"}

\* The text is no JSON, or the document's tasks or categories is missing or
\* no array.
Malformed(doc) ==
    \/ doc.kind = "garbage"
    \/ doc.tasks.kind # "array"
    \/ doc.categories.kind # "array"

\* What listTasks(), listCategories() and getSettings() return.
Reads ==
    <<[kind |-> getTasks.kind, items |-> getTasks.items],
      [kind |-> getCategories.kind, items |-> getCategories.items],
      [kind |-> getSettings.kind, obj |-> getSettings.obj]>>

\* C21: importSnapshot returns failure and leaves the three slots unchanged
\* whenever the text does not parse as the expected shape or the document
\* lacks the tasks field or the categories field.
C21_ImportRejectsMalformed ==
    [][(Made("importData") /\ Malformed(last'.arg)) =>
         /\ ~last'.ret
         /\ SlotsUnchanged]_vars

\* The same, for text that is no JSON and for documents whose tasks or
\* categories field is missing or null.
C21_ImportRejectsUnparsable ==
    [][(/\ Made("importData")
        /\ \/ last'.arg.kind = "garbage"
           \/ Falsy(last'.arg.tasks)
           \/ Falsy(last'.arg.categories)) =>
         /\ ~last'.ret
         /\ SlotsUnchanged]_vars

\* C22: a successful importSnapshot of a well-shaped document makes
\* listTasks() and listCategories() equal the document's tasks and
\* categories; getSettings() equals the document's settings when it has
\* some and is what it was when it has none.
C22_ImportOverwrites ==
    [][(Succeeded("importData") /\ WellShaped(last'.arg)) =>
         LET doc == last'.arg
         IN  /\ Reads'[1] = doc.tasks
             /\ Reads'[2] = doc.categories
             /\ Reads'[3] = IF doc.settings.kind = "object" THEN doc.settings
                            ELSE Reads[3]]_vars

\* The same, for an import each of whose setItem calls succeeded.
C22_ImportOverwritesWritten ==
    [][(/\ Succeeded("importData") /\ WellShaped(last'.arg)
        /\ last'.write = "several") =>
         LET doc == last'.arg
         IN  /\ Reads'[1] = doc.tasks
             /\ Reads'[2] = doc.categories
             /\ Reads'[3] = IF doc.settings.kind = "object" THEN doc.settings
                            ELSE Reads[3]]_vars

\* C23: importSnapshot(exportSnapshot()) returns success and leaves what
\* listTasks(), listCategories() and getSettings() return as it was.
C23_RoundTrip ==
    [][Made("exportImport") => (last'.ret /\ Reads' = Reads)]_vars

\* The same, in the states where no read returns null.
C23_RoundTripNoNull ==
    [][(/\ Made("exportImport")
        /\ getTasks.kind # "null"
        /\ getCategories.kind # "null"
        /\ getSettings.kind # "null") => (last'.ret /\ Reads' = Reads)]_vars

-----------------------------------------------------------------------------
(* C24..C30: the derived view *)

\* The list the view was derived from and the list that was rendered.
Input == currentTasks.items
Shown == rendered.items

\* The elements of a list, and the place of a task in a list without
\* repetitions.
Range(l) == {l[i] : i \in 1..Len(l)}
PlaceIn(l, t) == CHOOSE i \in 1..Len(l) : l[i] = t

\* Two places of the rendered list, the first before the second, whose tasks
\* are in the same completion group.
SameGroup(i, j) ==
    /\ i \in 1..Len(Shown) /\ j \in 1..Len(Shown) /\ i < j
    /\ Shown[i].completed = Shown[j].completed

\* The letter a character is, whatever its case (0 for what is no letter).
LetterOf(c) ==
    IF IndexIn(UpperCase, c) # 0 THEN IndexIn(UpperCase, c) ELSE IndexIn(LowerCase, c)
SameLetter(c, d) == c = d \/ (LetterOf(c) # 0 /\ LetterOf(c) = LetterOf(d))

\* sub is a case-insensitive substring of text.
ContainsFolded(text, sub) ==
    \E i \in 0..(Len(text) - Len(sub)) :
        \A k \in 1..Len(sub) :
            SameLetter(SubSeq(text, i + k, i + k), SubSeq(sub, k, k))

\* The text without the blanks around it.
Stripped(text) ==
    LET inked == {i \in 1..Len(text) : SubSeq(text, i, i) # " "}
    IN  IF inked = {} THEN ""
        ELSE SubSeq(text, CHOOSE i \in inked : \A j \in inked : i <= j,
                          CHOOSE i \in inked : \A j \in inked : i >= j)

\* The task's title or its description contains the text, case-insensitively;
\* a description that is absent contains nothing.
TitleOrDescriptionContains(t, text) ==
    \/ ContainsFolded(t.title, text)
    \/ "description" \in DOMAIN t /\ ContainsFolded(t.description, text)

\* The order of calendar dates written YYYY-MM-DD, of the priorities, and of
\* the titles that occur under the locale's ordering.
DateBeforeOrOn(d, e) ==
    LET i == FirstDifference(d, e)
    IN  i = 0 \/ IndexIn("0123456789", SubSeq(d, i, i))
                  < IndexIn("0123456789", SubSeq(e, i, i))
PriorityRank(p) == CASE p = "high" -> 1 [] p = "medium" -> 2 [] p = "low" -> 3
TitleRank(title) ==
    CASE title = "ab" -> 1 [] title = "Ab" -> 2 [] title = "b" -> 3 [] title = "B" -> 4

\* The task passes the category filter and the status filter.
PassesCategory(t) == categoryFilter = "all" \/ t.category = categoryFilter
PassesStatus(t) ==
    /\ statusFilter = "pending" => t.completed = FALSE
    /\ statusFilter = "completed" => t.completed = TRUE

\* C24: in the list deriveView returns every task with completed = true
\* comes after every task with completed = false, whatever the search text,
\* the filters and sortBy.
C24_IncompleteFirst ==
    rendered.done =>
        \A i \in 1..Len(Shown) : \A j \in 1..Len(Shown) :
            (Shown[i].completed /\ ~Shown[j].completed) => j < i

\* The scenario of the spec: sorted by date, the incomplete task due on
\* 2026-02-01 is shown before the completed task due on 2026-01-01, which
\* came first in the session list.
C24_Witness ==
    /\ rendered.done /\ sortSelect = "date"
    /\ Len(Input) = 2 /\ Input[1].completed /\ Input[1].dueDate = "2026-01-01"
    /\ Len(Shown) = 2 /\ ~Shown[1].completed /\ Shown[1].dueDate = "2026-02-01"
    /\ Shown[2] = Input[1]

\* C25: deriveView applied, with the same search text, filters and sortBy,
\* to the list it returned returns that list again, same tasks in the same
\* order.
C25_Idempotent ==
    rendered.done =>
        applyFiltersAndSort(Shown, searchInput, categoryFilter, statusFilter,
                            sortSelect).view = Shown

\* A view of three tasks in another order than the session list's, two of
\* them tied under the sort key.
C25_Witness ==
    /\ rendered.done /\ sortSelect = "priority"
    /\ Len(Shown) = 3 /\ Shown # Input
    /\ Shown[1].priority = Shown[2].priority

\* C26: with a non-empty search text deriveView keeps a task if and only if
\* the text is a case-insensitive substring of its title or of its
\* description (a task without description only if its title matches); with
\* an empty search text the search removes no task.
C26_SearchKeeps ==
    (rendered.done /\ categoryFilter = "all" /\ statusFilter = "all") =>
        \A t \in Range(Input) :
            t \in Range(Shown) <=>
                (searchInput = "" \/ TitleOrDescriptionContains(t, searchInput))

\* C26 as amended: the same for the search text without the blanks around
\* it; when nothing is left of it the search removes no task.
C26_SearchKeepsStripped ==
    (rendered.done /\ categoryFilter = "all" /\ statusFilter = "all") =>
        \A t \in Range(Input) :
            t \in Range(Shown) <=>
                (Stripped(searchInput) = ""
                 \/ TitleOrDescriptionContains(t, Stripped(searchInput)))

\* The search for "A " kept a task whose title has an a and one that has it
\* in its description alone, and removed a third.
C26_Witness ==
    /\ rendered.done /\ categoryFilter = "all" /\ statusFilter = "all"
    /\ searchInput = "A "
    /\ Len(Input) = 3 /\ Len(Shown) = 2
    /\ \E t \in Range(Shown) : ~ContainsFolded(t.title, "a")
    /\ \E t \in Range(Shown) : "description" \notin DOMAIN t

\* C27: deriveView returns exactly the input tasks, each once, that pass all
\* filters: the search, the category filter unless it is "all" (the
\* category equal to it), and the status filter ("pending": completed =
\* false, "completed": completed = true, "all": both).
C27_FiltersExact ==
    rendered.done =>
        LET searched == Range(applyFiltersAndSort(Input, searchInput, "all", "all",
                                                  sortSelect).view)
        IN  /\ \A i \in 1..Len(Shown) : \A j \in 1..Len(Shown) :
                  i # j => Shown[i] # Shown[j]
            /\ Range(Shown) = {t \in Range(Input) :
                                 t \in searched /\ PassesCategory(t) /\ PassesStatus(t)}

\* Of three tasks only the pending one of category cat_1 is shown.
C27_Witness ==
    /\ rendered.done /\ categoryFilter = "cat_1" /\ statusFilter = "pending"
    /\ searchInput = ""
    /\ Len(Input) = 3 /\ Len(Shown) = 1
    /\ \E t \in Range(Input) : t.category = "cat_1" /\ t.completed
    /\ \E t \in Range(Input) : t.category = "cat_2" /\ ~t.completed

\* C28: within each completion group the rendered tasks are ordered by
\* sortBy: "date" by non-decreasing dueDate, "priority" high before medium
\* before low, "alphabetical" by non-decreasing title.
C28_SecondaryOrder ==
    rendered.done =>
        \A i \in 1..Len(Shown) : \A j \in 1..Len(Shown) :
            SameGroup(i, j) =>
                /\ sortSelect = "date" =>
                      DateBeforeOrOn(Shown[i].dueDate, Shown[j].dueDate)
                /\ sortSelect = "priority" =>
                      PriorityRank(Shown[i].priority) <= PriorityRank(Shown[j].priority)
                /\ sortSelect = "alphabetical" =>
                      TitleRank(Shown[i].title) <= TitleRank(Shown[j].title)

\* Three incomplete tasks held in the order February, January, December of
\* the year before are shown by date.
C28_Witness ==
    /\ rendered.done /\ sortSelect = "date"
    /\ Len(Input) = 3
    /\ Input[1].dueDate = "2026-02-01" /\ Input[3].dueDate = "2025-12-31"
    /\ Len(Shown) = 3
    /\ Shown[1].dueDate = "2025-12-31" /\ Shown[3].dueDate = "2026-02-01"

\* Two tasks are equal under the secondary key that sortBy selects; under a
\* sortBy that selects none, any two are.
TiedKeys(a, b) ==
    CASE sortSelect = "date" -> a.dueDate = b.dueDate
      [] sortSelect = "priority" -> a.priority = b.priority
      [] sortSelect = "alphabetical" -> a.title = b.title
      [] OTHER -> TRUE

\* C29: two tasks of the same completion group that are equal under the
\* secondary key are shown in the order they have in the input.
C29_Stable ==
    rendered.done =>
        \A i \in 1..Len(Shown) : \A j \in 1..Len(Shown) :
            (SameGroup(i, j) /\ TiedKeys(Shown[i], Shown[j])) =>
                PlaceIn(Input, Shown[i]) < PlaceIn(Input, Shown[j])

\* Two tasks with the same title are shown after a task that was held
\* between them.
C29_Witness ==
    /\ rendered.done /\ sortSelect = "alphabetical"
    /\ Len(Input) = 3 /\ Input[1].title = "B" /\ Input[3].title = "B"
    /\ Len(Shown) = 3 /\ Shown[2] = Input[1] /\ Shown[3] = Input[3]

\* C30: deriving the view leaves the session's task list, in content and
\* order, its category list, its settings and the three slots as they were.
C30_NoSideEffects ==
    [][rendered'.done =>
         UNCHANGED <<currentTasks, currentCategories, currentSettings,
                     tasksSlot, categoriesSlot, settingsSlot>>]_vars

\* No filter applied and the view is in another order than the session list.
C30_Witness ==
    /\ rendered.done
    /\ searchInput = "" /\ categoryFilter = "all" /\ statusFilter = "all"
    /\ Len(Shown) = 3 /\ Shown # Input
    /\ currentTasks = getTasks

-----------------------------------------------------------------------------
(* C31..C39: the Coordinator *)

\* The step is the handler or continuation named op.
Handled(op) == calls' = calls + 1 /\ last'.op = op

\* The number of tasks of a list that are completed.
CompletedIn(tasks) ==
    Cardinality({i \in 1..Len(tasks) : "completed" \in DOMAIN tasks[i]
                                        /\ tasks[i].completed = TRUE})

\* C31: the counts shown are those of the session task list: total is its
\* length, completed the number of its tasks with completed = true, pending
\* is total - completed, so total = completed + pending and none is
\* negative; after a successful create, delete, toggle and clear-completed
\* command they are those of the task list that was read again.
C31_CountsOfSessionList ==
    /\ stats.done
    => /\ stats.total = Len(currentTasks.items)
       /\ stats.completed = CompletedIn(currentTasks.items)
       /\ stats.pending = stats.total - stats.completed
       /\ stats.total = stats.completed + stats.pending
       /\ stats.total >= 0 /\ stats.completed >= 0 /\ stats.pending >= 0
       /\ (/\ last.op \in {"handleTaskSubmit", "deleteTask", "toggleComplete",
                            "clearCompletedTasks"}
           /\ last.ret)
          => stats.total = Len(listTasks)

\* The Coordinator commands that write to the Repository.
Commands ==
    {"handleTaskSubmit", "deleteTask", "toggleComplete", "clearCompletedTasks",
     "handleCategorySubmit", "change", "toggleTheme", "onload"}

\* The step is one of these commands, the Repository operation returned
\* success and what it set out to write was written.
Mutated ==
    /\ calls' = calls + 1
    /\ last'.op \in Commands
    /\ last'.ret /\ last'.write \in {"ok", "several"}

\* The session mirror reads as the Repository does.
MirrorsStore ==
    /\ currentTasks.items = listTasks
    /\ SessionCategories = listCategories
    /\ SessionSettings = settingsRecord

\* C32: after every Coordinator command that has successfully mutated the
\* Repository the session mirror equals persisted state: currentTasks =
\* listTasks(), currentCategories = listCategories(), settings =
\* getSettings().
C32_MirrorAfterMutation == [][Mutated => MirrorsStore']_vars

\* The text initialize() writes to each slot.
SeedTexts ==
    [tasks |-> StringifyArray(<<>>), categories |-> StringifyArray(DEFAULT_CATEGORIES),
     settings |-> StringifyRecord(DEFAULT_SETTINGS)]
Slots == [tasks |-> tasksSlot, categories |-> categoriesSlot, settings |-> settingsSlot]

C34_ImportApplied ==
    [][(Handled("onload") /\ WellShaped(last'.arg)) =>
         /\ listTasks' = last'.arg.tasks.items
         /\ listCategories' = last'.arg.categories.items
         /\ MirrorsStore']_vars

\* The three slots, and what the session's tasks, categories and settings
\* read as.
Persisted == <<tasksSlot, categoriesSlot, settingsSlot>>
SessionState == <<currentTasks, SessionCategories, SessionSettings>>

\* C35: when the file read of an import ends with a read error, or the text
\* read is rejected by importSnapshot, the three slots and the session's
\* tasks, categories and settings are what they were before the
\* continuation ran.
C35_FailedImportKeepsState ==
    [][(Handled("onerror") \/ (Handled("onload") /\ ~last'.ret)) =>
         /\ Persisted' = Persisted
         /\ SessionState' = SessionState
         /\ UNCHANGED <<currentTasks, currentCategories, currentSettings>>]_vars

\* A text has been rejected in a session whose settings mirror differs from
\* what getSettings() returns (a reload would have changed the session).
C35_Witness ==
    /\ last.op = "onload" /\ ~last.ret
    /\ SessionSettings # settingsRecord
    /\ reading = {}

\* C36: importSnapshot returns success only if every slot it set out to
\* overwrite was written: when the write of the tasks slot, the categories
\* slot or the settings slot fails it returns failure and no slot is left
\* changed.
C36_ImportAllOrNothing ==
    [][(calls' = calls + 1 /\ last'.op = "importData" /\ last'.write = "failed") =>
         /\ ~last'.ret
         /\ SlotsUnchanged]_vars

\* C37: each Repository operation writes its own slot only: the task
\* operations leave the categories and settings slots as they are,
\* createCategory the tasks and settings slots, updateSetting the tasks and
\* categories slots, and the reads and exportSnapshot every slot.
C37_OwnSlotOnly ==
    [][(calls' = calls + 1) =>
         /\ last'.op \in {"addTask", "updateTask", "deleteTask", "toggleTaskComplete",
                           "clearCompletedTasks"}
            => UNCHANGED <<categoriesSlot, settingsSlot>>
         /\ last'.op = "addCategory" => UNCHANGED <<tasksSlot, settingsSlot>>
         /\ last'.op = "updateSetting" => UNCHANGED <<tasksSlot, categoriesSlot>>
         /\ last'.op \in ReadNames => SlotsUnchanged]_vars

\* A category has been written to a store whose settings slot holds no
\* settings object.
C37_Witness ==
    /\ last.op = "addCategory" /\ last.write = "ok"
    /\ settingsSlot.kind # "object"

\* C38: when the Repository write behind a Coordinator command fails, the
\* session's tasks, categories and settings are what they were before the
\* command.
C38_FailedWriteKeepsSession ==
    [][(/\ calls' = calls + 1
        /\ last'.op \in Commands \ {"onload"}
        /\ last'.write = "failed") =>
         SessionState' = SessionState]_vars

\* The form of a task submit misses a required field: the title is empty
\* once trimmed, no category is chosen, or the date is empty.
MissesField(form) ==
    trim(form.title) = "" \/ form.category = "" \/ form.dueDate = ""

\* Every task the tasks slot holds has a title that is not empty.
StoredTasksTitled ==
    tasksSlot.kind = "array" =>
        \A i \in 1..Len(tasksSlot.items) :
            /\ "title" \in DOMAIN tasksSlot.items[i]
            /\ tasksSlot.items[i].title # ""

\* C39: a task submit whose title (after trimming), category or dueDate is
\* empty calls no Repository operation and leaves the three slots and the
\* session's tasks, categories and settings as they were; and as long as no
\* import has been applied, every task stored by the task commands of a
\* session that started from an empty list has a title that is not empty.
C39_BlankSubmitRejected ==
    /\ [](~imported => StoredTasksTitled)
    /\ [][(Handled("handleTaskSubmit") /\ MissesField(last'.arg)) =>
            /\ ~last'.arg.called
            /\ Persisted' = Persisted
            /\ SessionState' = SessionState]_vars

\* A submit with a title of blanks has been turned down while a task added
\* by an earlier submit is stored.
C39_Witness ==
    /\ last.op = "handleTaskSubmit"
    /\ trim(last.arg.title) = ""
    /\ ~last.arg.called
    /\ ~imported
    /\ tasksSlot.kind = "array" /\ Len(tasksSlot.items) > 0

====
